---- MODULE Spec2Model ----
(***************************************************************************)
(* A model of the Hirex matching engine (src/src/hirex/engine.py): the     *)
(* five sub-scorers, the role-relevance computation, the weighted total    *)
(* and the ranking of match_candidates_to_jobs.                            *)
(*                                                                         *)
(* Python floats are modelled as exact rationals <<n, d>> in lowest terms  *)
(* with d > 0; text is modelled as sequences of one-character strings, so  *)
(* that strip(), lower(), split() and the substring test are computed.     *)
(***************************************************************************)
EXTENDS Integers, Sequences, FiniteSets, TLC

VARIABLES candidates, jobs, top_n, weights, now, called_at, previous_at, computed_years,
          scored_jobs, recommendations, _default_engine, request, response,
          roles, window_years, recent_years

vars == <<candidates, jobs, top_n, weights, now, called_at, previous_at, computed_years,
          scored_jobs, recommendations, _default_engine, request, response,
          roles, window_years, recent_years>>

(***************************************************************************)
(* Bounds of the model.                                                    *)
(***************************************************************************)
MaxCandidates == 2
MaxJobs == 2
MaxTopN == 3
MaxYears == 6
MaxMinYears == 3
MaxTicks == 1
MaxRoles == 2
MaxUrls == 21
MaxWindow == 6

(***************************************************************************)
(* Optional values: None is the empty tuple, a present value v is <<v>>.   *)
(***************************************************************************)
None == <<>>
Some(v) == <<v>>

(***************************************************************************)
(* Float arithmetic, as exact rationals.                                   *)
(***************************************************************************)
RECURSIVE GCD(_, _)
GCD(a, b) == IF b = 0 THEN a ELSE GCD(b, a % b)

Abs(a) == IF a < 0 THEN -a ELSE a

Q(n, d) ==
    LET g == GCD(Abs(n), Abs(d))
        s == IF d < 0 THEN -1 ELSE 1
    IN  <<s * (n \div g), s * (d \div g)>>

float(i) == <<i, 1>>

QAdd(x, y) ==
    LET g == GCD(x[2], y[2])
    IN  Q(x[1] * (y[2] \div g) + y[1] * (x[2] \div g), (x[2] \div g) * y[2])

QNeg(x) == <<-x[1], x[2]>>

QSub(x, y) == QAdd(x, QNeg(y))

QMul(x, y) ==
    LET a == Q(x[1], y[2])
        b == Q(y[1], x[2])
    IN  <<a[1] * b[1], a[2] * b[2]>>

QDiv(x, y) == QMul(x, Q(y[2], y[1]))

QLe(x, y) ==
    LET g == GCD(x[2], y[2])
    IN  x[1] * (y[2] \div g) <= y[1] * (x[2] \div g)

QLt(x, y) == QLe(x, y) /\ x # y

min(x, y) == IF QLe(x, y) THEN x ELSE y

max(x, y) == IF QLe(y, x) THEN x ELSE y

imax(a, b) == IF a >= b THEN a ELSE b

imin(a, b) == IF a <= b THEN a ELSE b

(***************************************************************************)
(* round(x, 4) for x >= 0: the nearest multiple of 1/10000, a tie going to *)
(* the even multiple.  The digits are produced by long division.           *)
(***************************************************************************)
RECURSIVE Digits(_, _, _, _)
Digits(q, r, d, k) ==
    IF k = 0 THEN <<q, r>>
    ELSE Digits(q * 10 + ((r * 10) \div d), (r * 10) % d, d, k - 1)

RECURSIVE Pow10(_)
Pow10(k) == IF k = 0 THEN 1 ELSE 10 * Pow10(k - 1)

round(x, ndigits) ==
    LET qr == Digits(x[1] \div x[2], x[1] % x[2], x[2], ndigits)
        q  == qr[1]
        r  == qr[2]
        up == (2 * r > x[2]) \/ (2 * r = x[2] /\ q % 2 = 1)
    IN  Q(IF up THEN q + 1 ELSE q, Pow10(ndigits))

(***************************************************************************)
(* Text: str.lower(), str.strip(), str.split(), " ".join and `a in b`.     *)
(***************************************************************************)
UpperToLower ==
    [c \in {"A","B","C","D","E","F","G","H","I","J","K","L","M","N","O","P",
            "Q","R","S","T","U","V","W","X","Y","Z"} |->
        CASE c = "A" -> "a" [] c = "B" -> "b" [] c = "C" -> "c" [] c = "D" -> "d"
          [] c = "E" -> "e" [] c = "F" -> "f" [] c = "G" -> "g" [] c = "H" -> "h"
          [] c = "I" -> "i" [] c = "J" -> "j" [] c = "K" -> "k" [] c = "L" -> "l"
          [] c = "M" -> "m" [] c = "N" -> "n" [] c = "O" -> "o" [] c = "P" -> "p"
          [] c = "Q" -> "q" [] c = "R" -> "r" [] c = "S" -> "s" [] c = "T" -> "t"
          [] c = "U" -> "u" [] c = "V" -> "v" [] c = "W" -> "w" [] c = "X" -> "x"
          [] c = "Y" -> "y" [] c = "Z" -> "z"]

lower(s) ==
    SubSeq([i \in 1..Len(s) |->
               IF s[i] \in DOMAIN UpperToLower THEN UpperToLower[s[i]] ELSE s[i]],
           1, Len(s))

RECURSIVE lstrip(_)
lstrip(s) == IF s # <<>> /\ Head(s) = " " THEN lstrip(Tail(s)) ELSE s

RECURSIVE rstrip(_)
rstrip(s) == IF s # <<>> /\ s[Len(s)] = " " THEN rstrip(SubSeq(s, 1, Len(s) - 1)) ELSE s

strip(s) == rstrip(lstrip(s))

RECURSIVE SplitFrom(_, _, _)
SplitFrom(s, word, acc) ==
    IF s = <<>> THEN (IF word = <<>> THEN acc ELSE Append(acc, word))
    ELSE IF Head(s) = " "
         THEN SplitFrom(Tail(s), <<>>, IF word = <<>> THEN acc ELSE Append(acc, word))
         ELSE SplitFrom(Tail(s), Append(word, Head(s)), acc)

split(s) == SplitFrom(s, <<>>, <<>>)

RECURSIVE join(_)
join(strs) ==
    IF strs = <<>> THEN <<>>
    ELSE IF Len(strs) = 1 THEN strs[1]
    ELSE strs[1] \o <<" ">> \o join(Tail(strs))

contains(sub, s) ==
    \/ sub = <<>>
    \/ \E i \in 1..(Len(s) - Len(sub) + 1) :
          s[i] = sub[1] /\ SubSeq(s, i, i + Len(sub) - 1) = sub

(***************************************************************************)
(* _normalized_set: strip and lowercase every value, drop the empty ones.  *)
(***************************************************************************)
_normalized_set(values) ==
    {lower(strip(values[i])) : i \in {k \in 1..Len(values) : strip(values[k]) # <<>>}}

(***************************************************************************)
(* The words of the fixtures.                                              *)
(***************************************************************************)
Python == <<"P", "y", "t", "h", "o", "n">>
python == <<"p", "y", "t", "h", "o", "n">>
FastAPI == <<"F", "a", "s", "t", "A", "P", "I">>
SQL == <<"S", "Q", "L">>
Django == <<"D", "j", "a", "n", "g", "o">>
Docker == <<"D", "o", "c", "k", "e", "r">>
Go == <<"G", "o">>
Empty == <<>>
berlin == <<"b", "e", "r", "l", "i", "n">>
Berlin == <<"B", "e", "r", "l", "i", "n">>
BerlinPadded == <<" ", "B", "e", "r", "l", "i", "n", " ">>
Paris == <<"P", "a", "r", "i", "s">>
Excel == <<"E", "x", "c", "e", "l">>

Kubernetes == <<"K", "u", "b", "e", "r", "n", "e", "t", "e", "s">>

Rust == <<"R", "u", "s", "t">>

Spaces == <<" ", " ">>
SaaS == <<"S", "a", "a", "S">>
FinTech == <<"F", "i", "n", "T", "e", "c", "h">>
fintech == <<"f", "i", "n", "t", "e", "c", "h">>
BackendEngineer == <<"B", "a", "c", "k", "e", "n", "d", " ", "E", "n", "g", "i", "n", "e", "e", "r">>
PythonDeveloper == <<"P", "y", "t", "h", "o", "n", " ", "D", "e", "v", "e", "l", "o", "p", "e", "r">>
DataAnalyst == <<"D", "a", "t", "a", " ", "A", "n", "a", "l", "y", "s", "t">>
Gardener == <<"G", "a", "r", "d", "e", "n", "e", "r">>
WebDjango == <<"W", "e", "b", " ", "d", "e", "v", "e", "l", "o", "p", "m", "e", "n", "t", " ", "w", "i", "t", "h", " ", "D", "j", "a", "n", "g", "o">>
ExcelSQL == <<"E", "x", "c", "e", "l", " ", "a", "n", "d", " ", "S", "Q", "L", " ", "a", "n", "a", "l", "y", "s", "i", "s">>

(***************************************************************************)
(* The domain keywords of _roles_in_similar_domain.                        *)
(***************************************************************************)
domains ==
    [domain \in {"backend", "frontend", "data", "devops", "mobile"} |->
        CASE domain = "backend" ->
               {<<"b", "a", "c", "k", "e", "n", "d">>,
                <<"a", "p", "i">>,
                <<"s", "e", "r", "v", "e", "r">>,
                <<"d", "a", "t", "a", "b", "a", "s", "e">>,
                <<"m", "i", "c", "r", "o", "s", "e", "r", "v", "i", "c", "e">>}
          [] domain = "frontend" ->
               {<<"f", "r", "o", "n", "t", "e", "n", "d">>,
                <<"u", "i">>,
                <<"r", "e", "a", "c", "t">>,
                <<"a", "n", "g", "u", "l", "a", "r">>,
                <<"v", "u", "e">>,
                <<"h", "t", "m", "l">>,
                <<"c", "s", "s">>}
          [] domain = "data" ->
               {<<"d", "a", "t", "a">>,
                <<"a", "n", "a", "l", "y", "t", "i", "c", "s">>,
                <<"s", "c", "i", "e", "n", "c", "e">>,
                <<"a", "n", "a", "l", "y", "s", "t">>,
                <<"m", "l">>,
                <<"a", "i">>}
          [] domain = "devops" ->
               {<<"d", "e", "v", "o", "p", "s">>,
                <<"i", "n", "f", "r", "a", "s", "t", "r", "u", "c", "t", "u", "r", "e">>,
                <<"c", "l", "o", "u", "d">>,
                <<"a", "w", "s">>,
                <<"d", "o", "c", "k", "e", "r">>,
                <<"k", "u", "b", "e", "r", "n", "e", "t", "e", "s">>}
          [] domain = "mobile" ->
               {<<"m", "o", "b", "i", "l", "e">>,
                <<"i", "o", "s">>,
                <<"a", "n", "d", "r", "o", "i", "d">>,
                <<"a", "p", "p">>}]

_roles_in_similar_domain(role, job) ==
    LET role_text == lower(role.title \o <<" ">> \o
                           (IF role.description = None THEN <<>> ELSE role.description[1]))
        job_text  == lower(job.title \o <<" ">> \o join(job.required_skills))
        role_domains == {d \in DOMAIN domains : \E keyword \in domains[d] : contains(keyword, role_text)}
        job_domains  == {d \in DOMAIN domains : \E keyword \in domains[d] : contains(keyword, job_text)}
    IN  role_domains \cap job_domains # {}

(***************************************************************************)
(* The float literals of the engine.                                       *)
(***************************************************************************)
Zero == float(0)
One == float(1)

(***************************************************************************)
(* _skill_score                                                            *)
(***************************************************************************)
(* Variant: the base score is the share of the candidate's skills that are *)
(* required, not the share of the required skills the candidate has.       *)
_skill_score_precision(candidate_skills, required_skills, nice_to_have_skills) ==
    LET cand_set     == _normalized_set(candidate_skills)
        required_set == _normalized_set(required_skills)
        optional_set == _normalized_set(nice_to_have_skills)
        base_score == QDiv(float(Cardinality(cand_set \cap required_set)),
                           float(Cardinality(cand_set)))
        optional_bonus ==
            IF optional_set # {}
            THEN QMul(QDiv(float(Cardinality(cand_set \cap optional_set)),
                           float(Cardinality(optional_set))), Q(3, 10))
            ELSE Zero
    IN  IF cand_set = {} /\ required_set # {} THEN Zero
        ELSE IF required_set = {} THEN (IF cand_set # {} THEN One ELSE Q(1, 2))
        ELSE min(One, QAdd(base_score, optional_bonus))

(* Variant: the sum of base score and bonus returned without min(1.0, .).   *)
_skill_score_unclamped(candidate_skills, required_skills, nice_to_have_skills) ==
    LET cand_set     == _normalized_set(candidate_skills)
        required_set == _normalized_set(required_skills)
        optional_set == _normalized_set(nice_to_have_skills)
        base_score == QDiv(float(Cardinality(cand_set \cap required_set)),
                           float(Cardinality(required_set)))
        optional_bonus ==
            IF optional_set # {}
            THEN QMul(QDiv(float(Cardinality(cand_set \cap optional_set)),
                           float(Cardinality(optional_set))), Q(3, 10))
            ELSE Zero
    IN  IF cand_set = {} /\ required_set # {} THEN Zero
        ELSE IF required_set = {} THEN (IF cand_set # {} THEN One ELSE Q(1, 2))
        ELSE QAdd(base_score, optional_bonus)

(* Variant: a job that requires nothing scores 1.0 for every candidate.     *)
_skill_score_lenient(candidate_skills, required_skills, nice_to_have_skills) ==
    LET cand_set     == _normalized_set(candidate_skills)
        required_set == _normalized_set(required_skills)
        optional_set == _normalized_set(nice_to_have_skills)
        base_score == QDiv(float(Cardinality(cand_set \cap required_set)),
                           float(Cardinality(required_set)))
        optional_bonus ==
            IF optional_set # {}
            THEN QMul(QDiv(float(Cardinality(cand_set \cap optional_set)),
                           float(Cardinality(optional_set))), Q(3, 10))
            ELSE Zero
    IN  IF cand_set = {} /\ required_set # {} THEN Zero
        ELSE IF required_set = {} THEN One
        ELSE min(One, QAdd(base_score, optional_bonus))

_skill_score(candidate_skills, required_skills, nice_to_have_skills) ==
    LET cand_set     == _normalized_set(candidate_skills)
        required_set == _normalized_set(required_skills)
        optional_set == _normalized_set(nice_to_have_skills)
        matched_required == cand_set \cap required_set
        base_score == QDiv(float(Cardinality(matched_required)), float(Cardinality(required_set)))
        matched_optional == cand_set \cap optional_set
        optional_bonus ==
            IF optional_set # {}
            THEN QMul(QDiv(float(Cardinality(matched_optional)), float(Cardinality(optional_set))),
                      Q(3, 10))
            ELSE Zero
    IN  IF cand_set = {} /\ required_set # {} THEN Zero
        ELSE IF required_set = {} THEN (IF cand_set # {} THEN One ELSE Q(1, 2))
        ELSE min(One, QAdd(base_score, optional_bonus))

(***************************************************************************)
(* _experience_score.  relevant_years and recent_relevant_years are        *)
(* optional (None or <<rational>>), as in the signature.                   *)
(***************************************************************************)
(* Variant: the blend weighs the career total 0.75 and the recent years     *)
(* 0.25.                                                                   *)
_experience_score_swapped(candidate_years, job_minimum_years, relevant_years, recent_relevant_years) ==
    LET blended_years ==
            IF relevant_years # None /\ recent_relevant_years # None
            THEN QAdd(QMul(Q(1, 4), recent_relevant_years[1]), QMul(Q(3, 4), relevant_years[1]))
            ELSE float(candidate_years)
        m == float(job_minimum_years)
        surplus_ratio == QDiv(QSub(blended_years, m), float(imax(job_minimum_years, 1)))
        penalty == QDiv(QSub(m, blended_years), float(job_minimum_years + 1))
    IN  IF job_minimum_years <= 0 THEN One
        ELSE IF QLe(m, blended_years)
             THEN min(One, QAdd(Q(7, 10), QMul(min(surplus_ratio, One), Q(3, 10))))
             ELSE max(Zero, QSub(Q(7, 10), penalty))

(* Variant: the surplus is measured against twice the minimum.             *)
_experience_score_slow_surplus(candidate_years, job_minimum_years, relevant_years, recent_relevant_years) ==
    LET blended_years ==
            IF relevant_years # None /\ recent_relevant_years # None
            THEN QAdd(QMul(Q(3, 4), recent_relevant_years[1]), QMul(Q(1, 4), relevant_years[1]))
            ELSE float(candidate_years)
        m == float(job_minimum_years)
        surplus_ratio == QDiv(QSub(blended_years, m), float(2 * imax(job_minimum_years, 1)))
        penalty == QDiv(QSub(m, blended_years), float(job_minimum_years + 1))
    IN  IF job_minimum_years <= 0 THEN One
        ELSE IF QLe(m, blended_years)
             THEN min(One, QAdd(Q(7, 10), QMul(min(surplus_ratio, One), Q(3, 10))))
             ELSE max(Zero, QSub(Q(7, 10), penalty))

_experience_score(candidate_years, job_minimum_years, relevant_years, recent_relevant_years) ==
    LET blended_years ==
            IF relevant_years # None /\ recent_relevant_years # None
            THEN QAdd(QMul(Q(3, 4), recent_relevant_years[1]), QMul(Q(1, 4), relevant_years[1]))
            ELSE float(candidate_years)
        m == float(job_minimum_years)
        surplus == QSub(blended_years, m)
        surplus_ratio == QDiv(surplus, float(imax(job_minimum_years, 1)))
        deficit == QSub(m, blended_years)
        penalty == QDiv(deficit, float(job_minimum_years + 1))
    IN  IF job_minimum_years <= 0 THEN One
        ELSE IF QLe(m, blended_years)
             THEN min(One, QAdd(Q(7, 10), QMul(min(surplus_ratio, One), Q(3, 10))))
             ELSE max(Zero, QSub(Q(7, 10), penalty))

(***************************************************************************)
(* _compute_relevant_years: <<relevant_years, recent_relevant_years>> of a *)
(* candidate for a job, evaluated in calendar year current_year.           *)
(***************************************************************************)
recent_cutoff_years == 5

(* Variant: the title tokens are not compared, the relevance comes from    *)
(* the skills and the domain only.                                         *)
RoleRelevance_skills_only(candidate, job, role) ==
    LET job_skills        == _normalized_set(job.required_skills)
        candidate_skills  == _normalized_set(candidate.skills)
        base_overlap == QDiv(float(Cardinality(candidate_skills \cap job_skills)),
                             float(Cardinality(job_skills)))
        role_text == IF role.description # None /\ role.description[1] # <<>>
                     THEN lower(role.title) \o <<" ">> \o lower(role.description[1])
                     ELSE lower(role.title)
        role_specific_skills == {skill \in job_skills : contains(skill, role_text)}
        role_skill_bonus == QDiv(float(Cardinality(role_specific_skills)),
                                 float(Cardinality(job_skills)))
        skill_overlap ==
            IF job_skills # {}
            THEN QAdd(QMul(Q(7, 10), base_overlap), QMul(Q(3, 10), role_skill_bonus))
            ELSE Zero
        domain_boost == IF _roles_in_similar_domain(role, job) THEN Q(2, 10) ELSE Zero
    IN  min(One, QAdd(skill_overlap, domain_boost))

(* Variant: the relevance is not capped at 1.0.                            *)
RoleRelevance_uncapped(candidate, job, role) ==
    LET job_title_tokens  == _normalized_set(split(job.title))
        job_skills        == _normalized_set(job.required_skills)
        candidate_skills  == _normalized_set(candidate.skills)
        role_title_tokens == _normalized_set(split(role.title))
        title_match == IF job_title_tokens \cap role_title_tokens # {} THEN One ELSE Zero
        base_overlap == QDiv(float(Cardinality(candidate_skills \cap job_skills)),
                             float(Cardinality(job_skills)))
        role_text == IF role.description # None /\ role.description[1] # <<>>
                     THEN lower(role.title) \o <<" ">> \o lower(role.description[1])
                     ELSE lower(role.title)
        role_specific_skills == {skill \in job_skills : contains(skill, role_text)}
        role_skill_bonus == QDiv(float(Cardinality(role_specific_skills)),
                                 float(Cardinality(job_skills)))
        skill_overlap ==
            IF job_skills # {}
            THEN QAdd(QMul(Q(7, 10), base_overlap), QMul(Q(3, 10), role_skill_bonus))
            ELSE Zero
        domain_boost == IF _roles_in_similar_domain(role, job) THEN Q(2, 10) ELSE Zero
    IN  QAdd(max(title_match, skill_overlap), domain_boost)

RoleRelevance(candidate, job, role) ==
    LET job_title_tokens  == _normalized_set(split(job.title))
        job_skills        == _normalized_set(job.required_skills)
        candidate_skills  == _normalized_set(candidate.skills)
        role_title_tokens == _normalized_set(split(role.title))
        title_match == IF job_title_tokens \cap role_title_tokens # {} THEN One ELSE Zero
        base_overlap == QDiv(float(Cardinality(candidate_skills \cap job_skills)),
                             float(Cardinality(job_skills)))
        role_text == IF role.description # None /\ role.description[1] # <<>>
                     THEN lower(role.title) \o <<" ">> \o lower(role.description[1])
                     ELSE lower(role.title)
        role_specific_skills == {skill \in job_skills : contains(skill, role_text)}
        role_skill_bonus == QDiv(float(Cardinality(role_specific_skills)),
                                 float(Cardinality(job_skills)))
        skill_overlap ==
            IF job_skills # {}
            THEN QAdd(QMul(Q(7, 10), base_overlap), QMul(Q(3, 10), role_skill_bonus))
            ELSE Zero
        domain_boost == IF _roles_in_similar_domain(role, job) THEN Q(2, 10) ELSE Zero
    IN  min(One, QAdd(max(title_match, skill_overlap), domain_boost))

(* Variant: the recent years of a dated role are limited by its            *)
(* duration_years.                                                         *)
RecentDuration_within_duration(role, current_year) ==
    LET recent_start == imax(role.start_year[1], current_year - recent_cutoff_years)
        role_end     == IF role.end_year = None \/ role.end_year[1] = 0
                        THEN current_year ELSE role.end_year[1]
        recent_end   == imin(role_end, current_year)
    IN  IF role.start_year # None
        THEN (IF recent_start <= recent_end
              THEN min(float(recent_end - recent_start), role.duration_years) ELSE Zero)
        ELSE (IF QLe(role.duration_years, float(recent_cutoff_years))
              THEN role.duration_years ELSE Zero)

(* Variant: an undated role longer than the window counts for the length   *)
(* of the window.                                                          *)
RecentDuration_proportional(role, current_year) ==
    LET recent_start == imax(role.start_year[1], current_year - recent_cutoff_years)
        role_end     == IF role.end_year = None \/ role.end_year[1] = 0
                        THEN current_year ELSE role.end_year[1]
        recent_end   == imin(role_end, current_year)
    IN  IF role.start_year # None
        THEN (IF recent_start <= recent_end THEN float(recent_end - recent_start) ELSE Zero)
        ELSE min(role.duration_years, float(recent_cutoff_years))

RecentDuration(role, current_year) ==
    LET recent_start == imax(role.start_year[1], current_year - recent_cutoff_years)
        role_end     == IF role.end_year = None \/ role.end_year[1] = 0
                        THEN current_year ELSE role.end_year[1]
        recent_end   == imin(role_end, current_year)
    IN  IF role.start_year # None
        THEN (IF recent_start <= recent_end THEN float(recent_end - recent_start) ELSE Zero)
        ELSE (IF QLe(role.duration_years, float(recent_cutoff_years))
              THEN role.duration_years ELSE Zero)

RECURSIVE SumRoles(_, _, _, _, _)
SumRoles(candidate, job, current_year, k, acc) ==
    IF k > Len(candidate.roles) THEN acc
    ELSE LET role == candidate.roles[k]
             role_relevance == RoleRelevance(candidate, job, role)
         IN  SumRoles(candidate, job, current_year, k + 1,
                      <<QAdd(acc[1], QMul(role.duration_years, role_relevance)),
                        QAdd(acc[2], QMul(RecentDuration(role, current_year), role_relevance))>>)


(* Variant: the years a candidate record carries are used when present.    *)
_compute_relevant_years_precomputed(candidate, job, current_year) ==
    IF candidate.relevant_years # None /\ candidate.recent_relevant_years # None
    THEN <<candidate.relevant_years[1], candidate.recent_relevant_years[1]>>
    ELSE IF candidate.roles = <<>>
    THEN LET years == float(candidate.years_experience)
         IN  <<years, min(years, float(5))>>
    ELSE SumRoles(candidate, job, current_year, 1, <<Zero, Zero>>)

(* Variant: for a candidate without roles every year of experience counts  *)
(* as recent.                                                              *)
_compute_relevant_years_uncapped(candidate, job, current_year) ==
    IF candidate.roles = <<>>
    THEN LET years == float(candidate.years_experience)
         IN  <<years, years>>
    ELSE SumRoles(candidate, job, current_year, 1, <<Zero, Zero>>)

(* Variant: the calendar year is remembered from one invocation to the     *)
(* next: an invocation computes with the year of the invocation before it. *)
_compute_relevant_years_stale(candidate, job, current_year) ==
    LET year == IF called_at = None THEN current_year ELSE called_at[1]
    IN  IF candidate.roles = <<>>
        THEN LET years == float(candidate.years_experience)
             IN  <<years, min(years, float(5))>>
        ELSE SumRoles(candidate, job, year, 1, <<Zero, Zero>>)

_compute_relevant_years(candidate, job, current_year) ==
    IF candidate.roles = <<>>
    THEN LET years == float(candidate.years_experience)
         IN  <<years, min(years, float(5))>>
    ELSE SumRoles(candidate, job, current_year, 1, <<Zero, Zero>>)

(***************************************************************************)
(* _salary_score                                                           *)
(***************************************************************************)

(* Variant: a desired salary below the floor is penalised as harshly as    *)
(* one above the ceiling.                                                  *)
_salary_score_symmetric(desired_salary, salary_min, salary_max) ==
    LET over  == IF salary_max # None /\ desired_salary[1] > salary_max[1]
                 THEN min(One, QDiv(float(desired_salary[1] - salary_max[1]),
                                    float(imax(salary_max[1], 1))))
                 ELSE Zero
        under == IF salary_min # None /\ desired_salary[1] < salary_min[1]
                 THEN min(One, QDiv(float(salary_min[1] - desired_salary[1]),
                                    float(imax(salary_min[1], 1))))
                 ELSE Zero
    IN  IF desired_salary = None \/ (salary_min = None /\ salary_max = None) THEN One
        ELSE max(Zero, QSub(QSub(One, over), under))

_salary_score(desired_salary, salary_min, salary_max) ==
    LET over  == IF salary_max # None /\ desired_salary[1] > salary_max[1]
                 THEN min(One, QDiv(float(desired_salary[1] - salary_max[1]),
                                    float(imax(salary_max[1], 1))))
                 ELSE Zero
        under == IF salary_min # None /\ desired_salary[1] < salary_min[1]
                 THEN min(Q(4, 10), QMul(QDiv(float(salary_min[1] - desired_salary[1]),
                                              float(imax(salary_min[1], 1))), Q(4, 10)))
                 ELSE Zero
    IN  IF desired_salary = None \/ (salary_min = None /\ salary_max = None) THEN One
        ELSE max(Zero, QSub(QSub(One, over), under))

(***************************************************************************)
(* _location_score                                                         *)
(***************************************************************************)

(* Variant: the job's location is compared as written, neither trimmed nor *)
(* lowercased.                                                             *)
_location_score_exact(preferred_locations, open_to_remote, job_location, job_remote) ==
    LET preferred == _normalized_set(preferred_locations)
        stated    == job_location # None /\ job_location[1] # <<>>
        job_loc   == IF stated THEN job_location[1] ELSE <<>>
    IN  IF job_remote /\ open_to_remote THEN One
        ELSE IF job_loc # <<>> /\ job_loc \in preferred THEN One
        ELSE IF preferred = {} THEN (IF job_loc # <<>> THEN Q(8, 10) ELSE One)
        ELSE (IF job_loc # <<>> THEN Q(2, 10) ELSE Q(4, 10))

_location_score(preferred_locations, open_to_remote, job_location, job_remote) ==
    LET preferred == _normalized_set(preferred_locations)
        stated    == job_location # None /\ job_location[1] # <<>>
        job_loc   == IF stated THEN lower(strip(job_location[1])) ELSE <<>>
    IN  IF job_remote /\ open_to_remote THEN One
        ELSE IF job_loc # <<>> /\ job_loc \in preferred THEN One
        ELSE IF preferred = {} THEN (IF job_loc # <<>> THEN Q(8, 10) ELSE One)
        ELSE (IF job_loc # <<>> THEN Q(2, 10) ELSE Q(4, 10))

(***************************************************************************)
(* _industry_score                                                         *)
(***************************************************************************)

(* Variant: the symmetric Jaccard index of the two industry sets.          *)
_industry_score_jaccard(candidate_industries, job_industries) ==
    LET candidate_set == _normalized_set(candidate_industries)
        job_set       == _normalized_set(job_industries)
    IN  IF candidate_set = {} /\ job_set = {} THEN Q(1, 2)
        ELSE IF candidate_set = {} THEN Q(6, 10)
        ELSE IF job_set = {} THEN Q(7, 10)
        ELSE QDiv(float(Cardinality(candidate_set \cap job_set)),
                  float(Cardinality(candidate_set \cup job_set)))

_industry_score(candidate_industries, job_industries) ==
    LET candidate_set == _normalized_set(candidate_industries)
        job_set       == _normalized_set(job_industries)
    IN  IF candidate_set = {} /\ job_set = {} THEN Q(1, 2)
        ELSE IF candidate_set = {} THEN Q(6, 10)
        ELSE IF job_set = {} THEN Q(7, 10)
        ELSE QDiv(float(Cardinality(candidate_set \cap job_set)), float(Cardinality(job_set)))

(***************************************************************************)
(* MatchingWeights.total_weight and MatchBreakdown.total                   *)
(***************************************************************************)
total_weight(w) ==
    QAdd(QAdd(QAdd(QAdd(w.skills, w.experience), w.salary), w.location), w.industry)

(* Variant: the weighted sum is returned without the division by the       *)
(* total weight.                                                           *)
total_undivided(breakdown, w) ==
    QAdd(QAdd(QAdd(QAdd(QMul(breakdown.skills, w.skills),
                        QMul(breakdown.experience, w.experience)),
                   QMul(breakdown.salary, w.salary)),
              QMul(breakdown.location, w.location)),
         QMul(breakdown.industry, w.industry))

(* Variant: the weights are ignored and the five sub-scores are averaged.   *)
total_unweighted(breakdown, w) ==
    QDiv(QAdd(QAdd(QAdd(QAdd(breakdown.skills, breakdown.experience),
                        breakdown.salary),
                   breakdown.location),
              breakdown.industry),
         float(5))

total(breakdown, w) ==
    QDiv(QAdd(QAdd(QAdd(QAdd(QMul(breakdown.skills, w.skills),
                             QMul(breakdown.experience, w.experience)),
                        QMul(breakdown.salary, w.salary)),
                   QMul(breakdown.location, w.location)),
              QMul(breakdown.industry, w.industry)),
         total_weight(w))

(***************************************************************************)
(* _score_candidate_for_job: the JobMatch of one candidate-job pair, with  *)
(* the local pair <<relevant_years, recent_relevant_years>> it was         *)
(* computed from.                                                          *)
(***************************************************************************)
MatchBreakdown(candidate, job, years) ==
        [skills     |-> _skill_score(candidate.skills, job.required_skills, job.nice_to_have_skills),
         experience |-> _experience_score(candidate.years_experience, job.minimum_years_experience,
                                          Some(years[1]), Some(years[2])),
         salary     |-> _salary_score(candidate.desired_salary, job.salary_min, job.salary_max),
         location   |-> _location_score(candidate.preferred_locations, candidate.open_to_remote,
                                        job.location, job.remote_allowed),
         industry   |-> _industry_score(candidate.industries, job.industries)]

(* Variant: the score is the weighted total as it is, not rounded.         *)
_score_candidate_for_job_unrounded(w, candidate, job, current_year) ==
    LET years == _compute_relevant_years(candidate, job, current_year)
        breakdown == MatchBreakdown(candidate, job, years)
        score == total(breakdown, w)
    IN  [years |-> years,
         match |-> [job |-> job, score |-> score, breakdown |-> breakdown]]

_score_candidate_for_job(w, candidate, job, current_year) ==
    LET years == _compute_relevant_years(candidate, job, current_year)
        breakdown == MatchBreakdown(candidate, job, years)
        score == total(breakdown, w)
    IN  [years |-> years,
         match |-> [job |-> job, score |-> round(score, 4), breakdown |-> breakdown]]

(***************************************************************************)
(* list.sort(key=lambda match: match.score, reverse=True): a stable sort   *)
(* by descending score, computed by insertion.                             *)
(***************************************************************************)
(* Variant: a match is placed before the matches of equal score.           *)
InsertBeforeEqual(sorted, match) ==
    LET k == Cardinality({i \in 1..Len(sorted) : QLt(match.score, sorted[i].score)})
    IN  SubSeq(sorted, 1, k) \o <<match>> \o SubSeq(sorted, k + 1, Len(sorted))

InsertByScore(sorted, match) ==
    LET k == Cardinality({i \in 1..Len(sorted) : QLe(match.score, sorted[i].score)})
    IN  SubSeq(sorted, 1, k) \o <<match>> \o SubSeq(sorted, k + 1, Len(sorted))

RECURSIVE SortFrom(_, _, _)
SortFrom(matches, k, sorted) ==
    IF k > Len(matches) THEN sorted
    ELSE SortFrom(matches, k + 1, InsertByScore(sorted, matches[k]))

(* Variant: the matches are left in input order.                           *)
sort_unsorted(matches) == matches

sort(matches) == SortFrom(matches, 1, <<>>)

(***************************************************************************)
(* The slice scored_jobs[: max(0, top_n)].                                 *)
(***************************************************************************)
(* Variant: the slice scored_jobs[: top_n], a negative top_n counting from  *)
(* the end of the list.                                                    *)
slice_unclamped(matches, n) ==
    SubSeq(matches, 1, IF n < 0 THEN imax(0, Len(matches) + n) ELSE imin(n, Len(matches)))

slice(matches, n) == SubSeq(matches, 1, imin(imax(0, n), Len(matches)))

(***************************************************************************)
(* The loops of match_candidates_to_jobs: every job is scored for every    *)
(* candidate, in input order.                                              *)
(***************************************************************************)
RECURSIVE ScoreAll(_, _, _, _)
ScoreAll(w, candidate, js, current_year) ==
    IF js = <<>> THEN <<>>
    ELSE <<_score_candidate_for_job(w, candidate, Head(js), current_year)>>
         \o ScoreAll(w, candidate, Tail(js), current_year)

RECURSIVE ScoreCandidates(_, _, _, _)
ScoreCandidates(w, cands, js, current_year) ==
    IF cands = <<>> THEN <<>>
    ELSE <<ScoreAll(w, Head(cands), js, current_year)>>
         \o ScoreCandidates(w, Tail(cands), js, current_year)

(* Of the scored pairs of every candidate, the locals (what = "years") or  *)
(* the values returned (what = "match").                                   *)
RECURSIVE Row(_, _)
Row(scored, what) ==
    IF scored = <<>> THEN <<>> ELSE <<Head(scored)[what]>> \o Row(Tail(scored), what)

RECURSIVE Rows(_, _)
Rows(scored, what) ==
    IF scored = <<>> THEN <<>> ELSE <<Row(Head(scored), what)>> \o Rows(Tail(scored), what)

(* Variant: a candidate without matches is left out of the result.         *)
RECURSIVE RecommendMatched(_, _, _)
RecommendMatched(cands, scored, n) ==
    IF cands = <<>> THEN <<>>
    ELSE (IF slice(sort(Head(scored)), n) = <<>> THEN <<>>
          ELSE <<[candidate |-> Head(cands), matches |-> slice(sort(Head(scored)), n)]>>)
         \o RecommendMatched(Tail(cands), Tail(scored), n)

RECURSIVE Recommend(_, _, _)
Recommend(cands, scored, n) ==
    IF cands = <<>> THEN <<>>
    ELSE <<[candidate |-> Head(cands), matches |-> slice(sort(Head(scored)), n)]>>
         \o Recommend(Tail(cands), Tail(scored), n)


(***************************************************************************)
(* Records of the data model.  The fixtures are _sample_candidate and      *)
(* _sample_job of the engine's tests, and the records with every optional  *)
(* field left at its default.                                              *)
(***************************************************************************)
Year0 == 2025

SampleCandidate ==
    [id |-> "cand-1", years_experience |-> 5,
     skills |-> <<Python, FastAPI, SQL>>, desired_salary |-> Some(90000),
     preferred_locations |-> <<berlin>>, open_to_remote |-> TRUE,
     industries |-> <<SaaS, FinTech>>, roles |-> <<>>,
     relevant_years |-> None, recent_relevant_years |-> None, seniority |-> None]

BlankCandidate ==
    [id |-> "cand-0", years_experience |-> 0,
     skills |-> <<>>, desired_salary |-> None,
     preferred_locations |-> <<>>, open_to_remote |-> TRUE,
     industries |-> <<>>, roles |-> <<>>,
     relevant_years |-> None, recent_relevant_years |-> None, seniority |-> None]

SampleJob ==
    [id |-> "job-1", title |-> BackendEngineer,
     required_skills |-> <<Python, FastAPI>>, nice_to_have_skills |-> <<SQL>>,
     minimum_years_experience |-> 4,
     salary_min |-> Some(85000), salary_max |-> Some(100000),
     location |-> Some(Berlin), remote_allowed |-> TRUE,
     industries |-> <<FinTech>>]

BlankJob ==
    [id |-> "job-0", title |-> Gardener,
     required_skills |-> <<>>, nice_to_have_skills |-> <<>>,
     minimum_years_experience |-> 0,
     salary_min |-> None, salary_max |-> None,
     location |-> None, remote_allowed |-> TRUE,
     industries |-> <<>>]

DefaultWeights ==
    [skills |-> Q(45, 100), experience |-> Q(2, 10), salary |-> Q(15, 100),
     location |-> Q(1, 10), industry |-> Q(1, 10)]

SalaryFocusWeights ==
    [skills |-> Q(3, 10), experience |-> Q(1, 10), salary |-> Q(4, 10),
     location |-> Q(1, 10), industry |-> Q(1, 10)]

UnnormalizedWeights ==
    [skills |-> float(2), experience |-> float(1), salary |-> Zero,
     location |-> Q(1, 2), industry |-> Zero]

(***************************************************************************)
(* MatchingWeights(...): the five weights are optional keyword arguments.  *)
(* A weight below 0 (Field(ge=0)) or a total weight that is not positive   *)
(* (_ensure_positive_total_weight) is a validation error.                  *)
(***************************************************************************)
NoArguments ==
    [skills |-> None, experience |-> None, salary |-> None, location |-> None,
     industry |-> None]

WithDefaults(kwargs) ==
    [skills     |-> IF kwargs.skills = None THEN DefaultWeights.skills ELSE kwargs.skills[1],
     experience |-> IF kwargs.experience = None THEN DefaultWeights.experience
                    ELSE kwargs.experience[1],
     salary     |-> IF kwargs.salary = None THEN DefaultWeights.salary ELSE kwargs.salary[1],
     location   |-> IF kwargs.location = None THEN DefaultWeights.location
                    ELSE kwargs.location[1],
     industry   |-> IF kwargs.industry = None THEN DefaultWeights.industry
                    ELSE kwargs.industry[1]]

(* Variant: the weights are not checked against ge=0.                      *)
MatchingWeights_unbounded(kwargs) ==
    LET w == WithDefaults(kwargs)
    IN  IF QLe(total_weight(w), Zero) THEN [ok |-> FALSE]
        ELSE [ok |-> TRUE, value |-> w]

MatchingWeights(kwargs) ==
    LET w == WithDefaults(kwargs)
    IN  IF \/ QLt(w.skills, Zero) \/ QLt(w.experience, Zero) \/ QLt(w.salary, Zero)
           \/ QLt(w.location, Zero) \/ QLt(w.industry, Zero)
        THEN [ok |-> FALSE]
        ELSE IF QLe(total_weight(w), Zero) THEN [ok |-> FALSE]
        ELSE [ok |-> TRUE, value |-> w]

(* Variant: the engine is built with the default weights whatever it is    *)
(* given.                                                                  *)
MatchingEngine_defaults(w) == [weights |-> MatchingWeights(NoArguments).value]

(* MatchingEngine(weights): self.weights = weights or MatchingWeights().   *)
MatchingEngine(w) ==
    [weights |-> IF w # None THEN w[1] ELSE MatchingWeights(NoArguments).value]

(* Weights whose skills weight is positive and small against the rest.     *)
TinySkillsWeights ==
    [skills |-> Q(1, 100000), experience |-> Q(2, 10), salary |-> Q(15, 100),
     location |-> Q(1, 10), industry |-> Q(1, 10)]

WeightPool == {DefaultWeights, SalaryFocusWeights, UnnormalizedWeights}

(***************************************************************************)
(* Role histories.  A RoleExperience has a title, duration_years, an       *)
(* optional description and optional start_year and end_year.              *)
(***************************************************************************)
PythonRole ==
    [title |-> PythonDeveloper, duration_years |-> float(2), description |-> Some(WebDjango),
     start_year |-> Some(Year0 - 2), end_year |-> None]

AnalystRole ==
    [title |-> DataAnalyst, duration_years |-> float(3), description |-> Some(ExcelSQL),
     start_year |-> Some(Year0 - 6), end_year |-> Some(Year0 - 3)]

UndatedLongRole ==
    [title |-> Gardener, duration_years |-> float(6), description |-> None,
     start_year |-> None, end_year |-> None]

UndatedShortRole ==
    [title |-> BackendEngineer, duration_years |-> Q(7, 2), description |-> None,
     start_year |-> None, end_year |-> None]

(* An ongoing role that started in the year of the first state.            *)
NewRole ==
    [title |-> PythonDeveloper, duration_years |-> Q(1, 2), description |-> None,
     start_year |-> Some(Year0), end_year |-> None]

(* A role that ended before the recent window and a role that has not yet  *)
(* begun.                                                                  *)
OldRole ==
    [title |-> DataAnalyst, duration_years |-> float(2), description |-> None,
     start_year |-> Some(Year0 - 10), end_year |-> Some(Year0 - 8)]

FutureRole ==
    [title |-> PythonDeveloper, duration_years |-> float(1), description |-> None,
     start_year |-> Some(Year0 + 3), end_year |-> None]

RolePool == {PythonRole, AnalystRole, UndatedLongRole, UndatedShortRole}

(* The lists of at most n distinct elements of S.                          *)
Lists(S, n) ==
    {s \in UNION {[1..k -> S] : k \in 0..n} :
        \A a, b \in DOMAIN s : a # b => s[a] # s[b]}

(***************************************************************************)
(* The inputs of an invocation: a fixture pair with one group of fields    *)
(* overridden, or lists of candidates and jobs with any top_n.             *)
(***************************************************************************)
BasePairs == {<<SampleCandidate, SampleJob>>, <<BlankCandidate, BlankJob>>}

CandidateSkillLists ==
    {<<>>, <<Empty>>, <<Python>>, <<python>>, <<python, Python>>, <<SQL>>, <<Python, SQL>>,
     <<Python, FastAPI>>, <<Python, FastAPI, SQL>>, <<Python, FastAPI, SQL, Docker>>, <<Go>>}

RequiredSkillLists == {<<>>, <<Python>>, <<Python, FastAPI>>, <<Go, Django>>}

NiceToHaveSkillLists == {<<>>, <<SQL>>, <<SQL, Docker>>}

SkillPairs ==
    {<<[b[1] EXCEPT !.skills = s],
       [b[2] EXCEPT !.required_skills = r, !.nice_to_have_skills = n]>> :
        b \in BasePairs, s \in CandidateSkillLists,
        r \in RequiredSkillLists, n \in NiceToHaveSkillLists}

YearsPairs ==
    {<<[b[1] EXCEPT !.years_experience = y],
       [b[2] EXCEPT !.minimum_years_experience = m]>> :
        b \in BasePairs, y \in 0..MaxYears, m \in 0..MaxMinYears}

RolesPairs ==
    {<<[b[1] EXCEPT !.roles = rs],
       [b[2] EXCEPT !.minimum_years_experience = m]>> :
        b \in BasePairs, rs \in Lists(RolePool, MaxRoles) \ {<<>>},
        m \in 0..MaxMinYears}

Salaries == {None, Some(0), Some(80000), Some(90000), Some(120000), Some(250000)}

SalaryBounds ==
    {sb \in {None, Some(0), Some(85000)} \X {None, Some(0), Some(100000)} :
        sb[1] # None /\ sb[2] # None => sb[2][1] >= sb[1][1]}

SalaryPairs ==
    {<<[b[1] EXCEPT !.desired_salary = d],
       [b[2] EXCEPT !.salary_min = sb[1], !.salary_max = sb[2]]>> :
        b \in BasePairs, d \in Salaries, sb \in SalaryBounds}

LocationPairs ==
    {<<[b[1] EXCEPT !.preferred_locations = p, !.open_to_remote = o],
       [b[2] EXCEPT !.location = l, !.remote_allowed = r]>> :
        b \in BasePairs, p \in {<<>>, <<berlin>>, <<Paris>>, <<Empty>>}, o \in BOOLEAN,
        l \in {None, Some(Berlin), Some(BerlinPadded), Some(Empty), Some(Spaces)},
        r \in BOOLEAN}

IndustryPairs ==
    {<<[b[1] EXCEPT !.industries = ci], [b[2] EXCEPT !.industries = ji]>> :
        b \in BasePairs, ci \in {<<>>, <<SaaS, FinTech>>, <<fintech>>, <<SaaS>>},
        ji \in {<<>>, <<FinTech>>, <<FinTech, SaaS>>}}

(* The fields a resume parser precomputes: relevant_years,                 *)
(* recent_relevant_years and seniority.                                    *)
Precomputed ==
    {<<Some(Q(9, 2)), Some(float(2)), Some("Senior")>>,
     <<Some(Zero), Some(Zero), None>>,
     <<None, None, Some("Junior")>>}

PrecomputedPairs ==
    {<<[SampleCandidate EXCEPT !.roles = rs, !.relevant_years = pre[1],
                               !.recent_relevant_years = pre[2], !.seniority = pre[3]],
       SampleJob>> :
        rs \in {<<>>, <<PythonRole>>, <<UndatedShortRole>>}, pre \in Precomputed}

(* The pair of test_custom_weights_modify_results.                        *)
CustomWeightsPairs ==
    {<<[SampleCandidate EXCEPT !.skills = <<Python>>, !.desired_salary = Some(120000)],
       [SampleJob EXCEPT !.required_skills = <<Python>>, !.salary_max = Some(100000)]>>}

Pairs == SkillPairs \cup YearsPairs \cup RolesPairs \cup SalaryPairs
            \cup LocationPairs \cup IndustryPairs \cup PrecomputedPairs
            \cup CustomWeightsPairs

WeightedPairs == YearsPairs \cup SalaryPairs \cup CustomWeightsPairs

(***************************************************************************)
(* The candidate and the jobs of test_experience_scoring_with_relevance,   *)
(* and a job unrelated to every role and skill of the candidate.  Both     *)
(* jobs of a call ask for the same minimum_years_experience.               *)
(***************************************************************************)
MixedCandidate ==
    [BlankCandidate EXCEPT !.id = "mixed-candidate", !.years_experience = 5,
                           !.skills = <<Python, Django, SQL, Excel>>,
                           !.roles = <<PythonRole, AnalystRole>>]

PythonJob ==
    [BlankJob EXCEPT !.id = "python-job", !.title = PythonDeveloper,
                     !.required_skills = <<Python, Django>>,
                     !.minimum_years_experience = 3]

AnalystJob ==
    [BlankJob EXCEPT !.id = "analyst-job", !.title = DataAnalyst,
                     !.required_skills = <<SQL, Excel>>,
                     !.minimum_years_experience = 3]

UnrelatedJob ==
    [BlankJob EXCEPT !.id = "unrelated-job", !.required_skills = <<Docker>>,
                     !.minimum_years_experience = 3]

RelevanceCandidates ==
    {[MixedCandidate EXCEPT !.roles = rs, !.skills = sk] :
        rs \in {<<PythonRole, AnalystRole>>, <<AnalystRole, PythonRole>>,
                <<NewRole, AnalystRole>>, <<UndatedShortRole, PythonRole>>,
                <<OldRole, FutureRole>>},
        sk \in {<<Python, Django, SQL, Excel>>, <<>>}}

RelevanceJobs ==
    {<<[p EXCEPT !.minimum_years_experience = m],
       [u EXCEPT !.minimum_years_experience = m]>> :
        p \in {PythonJob, [PythonJob EXCEPT !.required_skills = <<>>],
               [PythonJob EXCEPT !.required_skills = <<Python, FastAPI>>]},
        u \in {UnrelatedJob, [UnrelatedJob EXCEPT !.required_skills = <<>>], AnalystJob},
        m \in 1..MaxMinYears}

DatedCandidate == [SampleCandidate EXCEPT !.id = "cand-2", !.roles = <<PythonRole>>]

TwinJob == [SampleJob EXCEPT !.id = "job-2"]

WeakJob == [SampleJob EXCEPT !.id = "job-weak", !.required_skills = <<Go, Django>>,
                             !.nice_to_have_skills = <<Docker>>]

(***************************************************************************)
(* The candidate and the jobs of test_better_skill_alignment_ranks_higher, *)
(* and a job between the two: the jobs differ in their skills only.        *)
(***************************************************************************)
AlignedCandidate == [SampleCandidate EXCEPT !.skills = <<Python, Django, SQL, Docker>>]

CloseMatch ==
    [SampleJob EXCEPT !.id = "job-close", !.required_skills = <<Python, Django>>,
                      !.nice_to_have_skills = <<Docker>>]

NearMatch ==
    [SampleJob EXCEPT !.id = "job-near", !.required_skills = <<Python, Django>>,
                      !.nice_to_have_skills = <<Rust>>]

WeakMatch ==
    [SampleJob EXCEPT !.id = "job-weak", !.required_skills = <<Go, Kubernetes>>,
                      !.nice_to_have_skills = <<Rust>>]

AlignmentJobs ==
    {<<a, b>> : a \in {CloseMatch, NearMatch, WeakMatch}, b \in {CloseMatch, NearMatch, WeakMatch}}
        \ {<<a, a>> : a \in {CloseMatch, NearMatch, WeakMatch}}

AlignmentWeights == WeightPool \cup {TinySkillsWeights}

CandidatePool == {SampleCandidate, DatedCandidate}

JobPool == {SampleJob, TwinJob, WeakJob}

(***************************************************************************)
(* The divisors of the divisions reached while one candidate-job pair is   *)
(* scored: in _skill_score, _experience_score, the role relevance of       *)
(* _compute_relevant_years, _salary_score, _industry_score and             *)
(* MatchBreakdown.total.  years is the pair <<relevant_years,              *)
(* recent_relevant_years>> of the pair.                                    *)
(***************************************************************************)
(* Variant: the salary bounds divide as they are, without max(bound, 1).   *)
DivisorsUnguarded(w, candidate, job, years) ==
    LET cand_set     == _normalized_set(candidate.skills)
        required_set == _normalized_set(job.required_skills)
        optional_set == _normalized_set(job.nice_to_have_skills)
        m            == job.minimum_years_experience
        blended_years == QAdd(QMul(Q(3, 4), years[2]), QMul(Q(1, 4), years[1]))
        desired      == candidate.desired_salary
        candidate_set == _normalized_set(candidate.industries)
        job_set       == _normalized_set(job.industries)
        skill ==
            IF (cand_set = {} /\ required_set # {}) \/ required_set = {} THEN {}
            ELSE {Cardinality(required_set)}
                 \cup (IF optional_set # {} THEN {Cardinality(optional_set)} ELSE {})
        experience ==
            IF m <= 0 THEN {}
            ELSE IF QLe(float(m), blended_years) THEN {imax(m, 1)} ELSE {m + 1}
        relevance ==
            IF candidate.roles # <<>> /\ required_set # {}
            THEN {Cardinality(required_set)} ELSE {}
        salary ==
            IF desired = None \/ (job.salary_min = None /\ job.salary_max = None) THEN {}
            ELSE (IF job.salary_max # None /\ desired[1] > job.salary_max[1]
                  THEN {job.salary_max[1]} ELSE {})
                 \cup (IF job.salary_min # None /\ desired[1] < job.salary_min[1]
                       THEN {job.salary_min[1]} ELSE {})
        industry ==
            IF candidate_set # {} /\ job_set # {} THEN {Cardinality(job_set)} ELSE {}
    IN  {float(d) : d \in skill \cup experience \cup relevance \cup salary \cup industry}
            \cup {total_weight(w)}

Divisors(w, candidate, job, years) ==
    LET cand_set     == _normalized_set(candidate.skills)
        required_set == _normalized_set(job.required_skills)
        optional_set == _normalized_set(job.nice_to_have_skills)
        m            == job.minimum_years_experience
        blended_years == QAdd(QMul(Q(3, 4), years[2]), QMul(Q(1, 4), years[1]))
        desired      == candidate.desired_salary
        candidate_set == _normalized_set(candidate.industries)
        job_set       == _normalized_set(job.industries)
        skill ==
            IF (cand_set = {} /\ required_set # {}) \/ required_set = {} THEN {}
            ELSE {Cardinality(required_set)}
                 \cup (IF optional_set # {} THEN {Cardinality(optional_set)} ELSE {})
        experience ==
            IF m <= 0 THEN {}
            ELSE IF QLe(float(m), blended_years) THEN {imax(m, 1)} ELSE {m + 1}
        relevance ==
            IF candidate.roles # <<>> /\ required_set # {}
            THEN {Cardinality(required_set)} ELSE {}
        salary ==
            IF desired = None \/ (job.salary_min = None /\ job.salary_max = None) THEN {}
            ELSE (IF job.salary_max # None /\ desired[1] > job.salary_max[1]
                  THEN {imax(job.salary_max[1], 1)} ELSE {})
                 \cup (IF job.salary_min # None /\ desired[1] < job.salary_min[1]
                       THEN {imax(job.salary_min[1], 1)} ELSE {})
        industry ==
            IF candidate_set # {} /\ job_set # {} THEN {Cardinality(job_set)} ELSE {}
    IN  {float(d) : d \in skill \cup experience \cup relevance \cup salary \cup industry}
            \cup {total_weight(w)}

(***************************************************************************)
(* The state machine.  candidates, jobs and top_n are the arguments of the *)
(* invocation, weights is the engine's self.weights, now is the calendar   *)
(* year datetime.now().year returns, called_at is the year of the latest   *)
(* invocation (None before the first), previous_at is the year of the     *)
(* invocation before that one, computed_years holds for every candidate    *)
(* and job the pair <<relevant_years, recent_relevant_years>> of            *)
(* _score_candidate_for_job, scored_jobs is the unsorted list of           *)
(* ScoredMatch of every candidate and recommendations is the value         *)
(* returned.                                                               *)
(***************************************************************************)
InitPair ==
    /\ \E p \in Pairs : candidates = <<p[1]>> /\ jobs = <<p[2]>>
    /\ top_n = 1
    /\ weights = DefaultWeights

InitWeights ==
    /\ \E p \in WeightedPairs : candidates = <<p[1]>> /\ jobs = <<p[2]>>
    /\ top_n = 1
    /\ weights \in WeightPool \ {DefaultWeights}

InitLists ==
    /\ candidates \in Lists(CandidatePool, MaxCandidates)
    /\ jobs \in Lists(JobPool, MaxJobs)
    /\ top_n \in -1..MaxTopN
    /\ weights = DefaultWeights

InitRelevance ==
    /\ candidates \in {<<c>> : c \in RelevanceCandidates}
    /\ jobs \in RelevanceJobs \cup {<<pu[2], pu[1]>> : pu \in RelevanceJobs}
    /\ top_n = 2
    /\ weights = DefaultWeights

InitAlignment ==
    /\ candidates = <<AlignedCandidate>>
    /\ jobs \in AlignmentJobs
    /\ top_n \in 1..2
    /\ weights \in AlignmentWeights

Init ==
    /\ InitPair \/ InitWeights \/ InitLists \/ InitRelevance \/ InitAlignment
    /\ now = Year0
    /\ called_at = None
    /\ previous_at = None
    /\ computed_years = <<>>
    /\ scored_jobs = <<>>
    /\ recommendations = <<>>
    /\ _default_engine = MatchingEngine(None)
    /\ request = None
    /\ response = None
    /\ roles = <<>>
    /\ window_years = 5
    /\ recent_years = None

match_candidates_to_jobs ==
    /\ \E scored \in {ScoreCandidates(weights, candidates, jobs, now)} :
           computed_years' = Rows(scored, "years") /\ scored_jobs' = Rows(scored, "match")
    /\ recommendations' = Recommend(candidates, scored_jobs', top_n)
    /\ called_at' = Some(now)
    /\ previous_at' = called_at
    /\ UNCHANGED <<candidates, jobs, top_n, weights, now, _default_engine, request, response,
                   roles, window_years, recent_years>>

Tick ==
    /\ now < Year0 + MaxTicks
    /\ now' = now + 1
    /\ UNCHANGED <<candidates, jobs, top_n, weights, called_at, previous_at, computed_years,
                   scored_jobs, recommendations, _default_engine, request, response,
                   roles, window_years, recent_years>>

Next == match_candidates_to_jobs \/ Tick

Spec == Init /\ [][Next]_vars

(***************************************************************************)
(* The API layer (app/main.py).  The module builds one default engine; a   *)
(* handler validates its request, picks an engine and calls                *)
(* match_candidates_to_jobs.  request is the request being answered,       *)
(* response its answer; candidates, jobs, top_n and weights are the        *)
(* arguments and the engine of the call the handler made, called_at is     *)
(* None when the handler made no call.                                     *)
(***************************************************************************)
(* MatchRequest(...): top_n defaults to 3 and must lie in 1..20, the       *)
(* weights are optional and built by MatchingWeights.                      *)
MatchRequest(body) ==
    LET n == IF body.top_n = None THEN 3 ELSE body.top_n[1]
        w == IF body.weights = None THEN [ok |-> TRUE, value |-> None]
             ELSE (IF MatchingWeights(body.weights[1]).ok
                   THEN [ok |-> TRUE, value |-> Some(MatchingWeights(body.weights[1]).value)]
                   ELSE [ok |-> FALSE])
    IN  IF n < 1 \/ n > 20 \/ ~w.ok THEN [ok |-> FALSE]
        ELSE [ok |-> TRUE,
              value |-> [candidates |-> body.candidates, jobs |-> body.jobs,
                         top_n |-> n, weights |-> w.value]]

(* engine.match_candidates_to_jobs(cands, js, top_n=n) of an engine whose  *)
(* weights are w.                                                          *)
EngineCall(w, cands, js, n) ==
    /\ \E scored \in {ScoreCandidates(w, cands, js, now)} :
           /\ computed_years' = Rows(scored, "years")
           /\ scored_jobs' = Rows(scored, "match")
    /\ recommendations' = Recommend(cands, scored_jobs', n)
    /\ candidates' = cands
    /\ jobs' = js
    /\ top_n' = n
    /\ weights' = w
    /\ called_at' = Some(now)

(* The handler answers without calling an engine.                          *)
NoEngineCall ==
    /\ candidates' = <<>>
    /\ jobs' = <<>>
    /\ top_n' = 0
    /\ weights' = _default_engine.weights
    /\ computed_years' = <<>>
    /\ scored_jobs' = <<>>
    /\ recommendations' = <<>>
    /\ called_at' = None

(* The bodies of the /match requests: the sample pair with the top_n or    *)
(* the weights varied.                                                     *)
TopNs == {None, Some(-1), Some(0), Some(1), Some(20), Some(21)}

WeightArguments ==
    {[skills |-> s, experience |-> e, salary |-> a, location |-> e, industry |-> i] :
        s \in {None, Some(Q(-1, 10)), Some(Zero), Some(Q(4, 10))},
        a \in {None, Some(Q(-1, 10)), Some(Zero), Some(Q(4, 10))},
        e \in {None, Some(Zero)}, i \in {None, Some(Zero)}}

MatchBodies ==
    {[candidates |-> <<SampleCandidate>>, jobs |-> <<SampleJob, WeakJob>>,
      top_n |-> n, weights |-> None] : n \in TopNs}
    \cup {[candidates |-> <<SampleCandidate>>, jobs |-> <<SampleJob, WeakJob>>,
           top_n |-> None, weights |-> Some(w)] : w \in WeightArguments}

(* POST /match.                                                            *)
match ==
    \E body \in MatchBodies : \E parsed \in {MatchRequest(body)} :
        /\ request' = Some([endpoint |-> "/match", body |-> body])
        /\ IF ~parsed.ok
           THEN /\ response' = Some([status_code |-> 422])
                /\ NoEngineCall
           ELSE \E engine \in {IF parsed.value.weights # None
                               THEN MatchingEngine(parsed.value.weights)
                               ELSE _default_engine} :
                    /\ EngineCall(engine.weights, parsed.value.candidates,
                                  parsed.value.jobs, parsed.value.top_n)
                    /\ response' = Some([status_code |-> 200, weights |-> engine.weights,
                                         results |-> recommendations'])
        /\ UNCHANGED <<now, previous_at, _default_engine, roles, window_years, recent_years>>

(* n copies of x.                                                          *)
RECURSIVE Repeat(_, _)
Repeat(x, n) == IF n <= 0 THEN <<>> ELSE <<x>> \o Repeat(x, n - 1)

(* The profile parse_resume returns for a resume in which it finds no      *)
(* years, skills or roles.                                                 *)
ParsedCandidate ==
    [BlankCandidate EXCEPT !.id = "resume", !.relevant_years = Some(Zero),
                           !.recent_relevant_years = Some(Zero)]

(* The uploads of /analyze-jobs: the file name has an accepted extension   *)
(* or not, the parser returns a candidate or raises, and of the URLs given *)
(* scraped of them give a posting and failed of them raise.                *)
Uploads ==
    {[accepted |-> TRUE, parsed |-> Some(ParsedCandidate), scraped |-> g, failed |-> b] :
        g \in 0..MaxUrls, b \in 0..1}
    \cup {[accepted |-> f, parsed |-> c, scraped |-> 1, failed |-> 0] :
            f \in BOOLEAN, c \in {None, Some(ParsedCandidate)}}

(* POST /analyze-jobs.                                                     *)
analyze_jobs ==
    \E upload \in Uploads :
        /\ request' = Some([endpoint |-> "/analyze-jobs", upload |-> upload])
        /\ IF \/ ~upload.accepted
              \/ upload.parsed = None
              \/ upload.scraped + upload.failed = 0
              \/ upload.scraped = 0
           THEN /\ response' = Some([status_code |-> 400])
                /\ NoEngineCall
           ELSE /\ EngineCall(_default_engine.weights, <<upload.parsed[1]>>,
                              Repeat(SampleJob, upload.scraped), upload.scraped)
                /\ response' = Some([status_code |-> 200,
                                     weights |-> _default_engine.weights,
                                     results |-> recommendations'])
        /\ UNCHANGED <<now, previous_at, _default_engine, roles, window_years, recent_years>>

ApiInit ==
    /\ _default_engine = MatchingEngine(None)
    /\ request = None
    /\ response = None
    /\ candidates = <<>>
    /\ jobs = <<>>
    /\ top_n = 0
    /\ weights = _default_engine.weights
    /\ now = Year0
    /\ called_at = None
    /\ previous_at = None
    /\ computed_years = <<>>
    /\ scored_jobs = <<>>
    /\ recommendations = <<>>
    /\ roles = <<>>
    /\ window_years = 5
    /\ recent_years = None

ApiNext == match \/ analyze_jobs

ApiSpec == ApiInit /\ [][ApiNext]_vars

(***************************************************************************)
(* ResumeParser._compute_recent_years(roles, window_years): the years of   *)
(* the roles inside the last window_years years.  roles and window_years   *)
(* are the arguments of the call, recent_years the value returned and      *)
(* called_at the year of the call.                                         *)
(***************************************************************************)
RECURSIVE RecentYearsFrom(_, _, _, _, _)
RecentYearsFrom(rs, window, current_year, k, recent) ==
    IF k > Len(rs) THEN recent
    ELSE LET role          == rs[k]
             cutoff_year   == current_year - window
             role_end      == IF role.end_year = None \/ role.end_year[1] = 0
                              THEN current_year ELSE role.end_year[1]
             overlap_start == imax(role.start_year[1], cutoff_year)
             overlap_end   == imin(role_end, current_year)
         IN  IF role.start_year = None
             THEN RecentYearsFrom(rs, window, current_year, k + 1,
                      IF QLe(role.duration_years, float(window))
                      THEN QAdd(recent, role.duration_years) ELSE recent)
             ELSE RecentYearsFrom(rs, window, current_year, k + 1,
                      IF overlap_start <= overlap_end
                      THEN QAdd(recent, max(Zero, float(overlap_end - overlap_start)))
                      ELSE recent)

_compute_recent_years(rs, window, current_year) ==
    IF rs = <<>> THEN Zero ELSE RecentYearsFrom(rs, window, current_year, 1, Zero)

ParserRoles == RolePool \cup {OldRole}

ParserInit ==
    /\ roles \in Lists(ParserRoles, MaxRoles)
    /\ window_years \in 0..MaxWindow
    /\ recent_years = None
    /\ now = Year0
    /\ called_at = None
    /\ previous_at = None
    /\ _default_engine = MatchingEngine(None)
    /\ request = None
    /\ response = None
    /\ candidates = <<>>
    /\ jobs = <<>>
    /\ top_n = 0
    /\ weights = _default_engine.weights
    /\ computed_years = <<>>
    /\ scored_jobs = <<>>
    /\ recommendations = <<>>

compute_recent_years ==
    /\ recent_years' = Some(_compute_recent_years(roles, window_years, now))
    /\ called_at' = Some(now)
    /\ UNCHANGED <<candidates, jobs, top_n, weights, now, previous_at, computed_years,
                   scored_jobs, recommendations, _default_engine, request, response,
                   roles, window_years>>

ParserNext == compute_recent_years \/ Tick

ParserSpec == ParserInit /\ [][ParserNext]_vars

(***************************************************************************)
(* Vocabulary of the properties.                                           *)
(***************************************************************************)
Called == called_at # None

ScoredPairs == {ij \in (1..Len(candidates)) \X (1..Len(jobs)) : Called}

InUnit(x) == QLe(Zero, x) /\ QLe(x, One)

(* blended years out of <<relevant_years, recent_relevant_years>>.         *)
Blend(years) == QAdd(QMul(Q(3, 4), years[2]), QMul(Q(1, 4), years[1]))

(* The experience policy as a function of the blended years and the        *)
(* minimum m.                                                              *)
ExperienceFormula(blended, m) ==
    IF m <= 0 THEN One
    ELSE IF QLe(float(m), blended)
         THEN min(One, QAdd(Q(7, 10),
                            QMul(min(QDiv(QSub(blended, float(m)), float(imax(m, 1))), One),
                                 Q(3, 10))))
         ELSE max(Zero, QSub(Q(7, 10), QDiv(QSub(float(m), blended), float(m + 1))))

(* The weighted mean of the five sub-scores of a breakdown.                *)
WeightedMean(b, w) ==
    QDiv(QAdd(QMul(b.skills, w.skills),
              QAdd(QMul(b.experience, w.experience),
                   QAdd(QMul(b.salary, w.salary),
                        QAdd(QMul(b.location, w.location), QMul(b.industry, w.industry))))),
         QAdd(w.skills, QAdd(w.experience, QAdd(w.salary, QAdd(w.location, w.industry)))))

(* score is x rounded to 4 decimal places: a multiple of 1/10000 at most   *)
(* half of 1/10000 away from x.                                            *)
RoundedTo4(score, x) ==
    /\ 10000 % score[2] = 0
    /\ QLe(QSub(score, x), Q(1, 20000))
    /\ QLe(QSub(x, score), Q(1, 20000))

(* A candidate has a role with a start year, the only data the calendar    *)
(* year is compared with.                                                  *)
HasDatedRole(c) == \E k \in 1..Len(c.roles) : c.roles[k].start_year # None

(***************************************************************************)
(* C1: every sub-score (skills, experience, salary, location, industry)    *)
(* and the rounded total score of every scored candidate-job pair lie in   *)
(* the closed interval [0, 1].                                             *)
(***************************************************************************)
C1_ScoresInUnitInterval ==
    \A ij \in ScoredPairs :
        LET m == scored_jobs[ij[1]][ij[2]]
        IN  /\ InUnit(m.breakdown.skills)
            /\ InUnit(m.breakdown.experience)
            /\ InUnit(m.breakdown.salary)
            /\ InUnit(m.breakdown.location)
            /\ InUnit(m.breakdown.industry)
            /\ InUnit(m.score)

(* A pair whose skills overlap plus bonus exceeds 1 and is clamped, with a *)
(* total strictly inside the interval.                                     *)
C1_Witness ==
    \E ij \in ScoredPairs :
        LET m == scored_jobs[ij[1]][ij[2]]
            c == candidates[ij[1]]
            j == jobs[ij[2]]
        IN  /\ _normalized_set(j.required_skills) # {}
            /\ _normalized_set(j.required_skills) \subseteq _normalized_set(c.skills)
            /\ _normalized_set(j.nice_to_have_skills) \cap _normalized_set(c.skills) # {}
            /\ m.breakdown.skills = One
            /\ QLt(Zero, m.score) /\ QLt(m.score, One)

(***************************************************************************)
(* C2: every candidate's matches are ordered by score non-increasing, and  *)
(* matches of equal score keep the relative order of the input jobs: the   *)
(* matches are the scored jobs at positions f[1], f[2], ... of the input,  *)
(* f injective, with f increasing wherever the scores are equal.           *)
(***************************************************************************)
C2_RankedStable ==
    Called =>
        \A i \in 1..Len(recommendations) :
            LET ms == recommendations[i].matches
            IN  /\ \A a, b \in 1..Len(ms) : a < b => QLe(ms[b].score, ms[a].score)
                /\ \E f \in [1..Len(ms) -> 1..Len(jobs)] :
                       /\ \A a \in 1..Len(ms) : scored_jobs[i][f[a]] = ms[a]
                       /\ \A a, b \in 1..Len(ms) : a < b => f[a] # f[b]
                       /\ \A a, b \in 1..Len(ms) :
                              (a < b /\ ms[a].score = ms[b].score) => f[a] < f[b]

(* Two different jobs with the same score, both returned, the earlier      *)
(* input first.                                                            *)
C2_Witness ==
    /\ Called
    /\ \E i \in 1..Len(recommendations) :
           LET ms == recommendations[i].matches
           IN  /\ Len(ms) >= 2
               /\ ms[1].score = ms[2].score
               /\ ms[1].job # ms[2].job
               /\ ms[1].job = jobs[1]

(***************************************************************************)
(* C3: for every candidate the number of matches returned is               *)
(* min(max(0, top_n), number of jobs); a negative top_n gives no matches.  *)
(***************************************************************************)
C3_TopNTruncation ==
    Called =>
        \A i \in 1..Len(recommendations) :
            LET n == Len(recommendations[i].matches)
            IN  /\ n = (IF top_n <= 0 THEN 0
                        ELSE IF top_n <= Len(jobs) THEN top_n ELSE Len(jobs))
                /\ top_n < 0 => recommendations[i].matches = <<>>

(* A negative top_n with candidates and jobs present.                      *)
C3_Witness ==
    /\ Called
    /\ top_n < 0
    /\ Len(jobs) = MaxJobs
    /\ Len(recommendations) > 0
    /\ \A i \in 1..Len(recommendations) : recommendations[i].matches = <<>>

(***************************************************************************)
(* C4: the result holds exactly one CandidateMatches per input candidate,  *)
(* in input order and carrying that candidate; no candidates give an empty *)
(* result and no jobs give every candidate an empty match list.            *)
(***************************************************************************)
C4_OnePerCandidate ==
    Called =>
        /\ Len(recommendations) = Len(candidates)
        /\ \A i \in 1..Len(candidates) : recommendations[i].candidate = candidates[i]
        /\ candidates = <<>> => recommendations = <<>>
        /\ jobs = <<>> => \A i \in 1..Len(recommendations) : recommendations[i].matches = <<>>

(* Two different candidates and no job.                                    *)
C4_Witness ==
    /\ Called
    /\ Len(candidates) >= 2
    /\ candidates[1] # candidates[2]
    /\ jobs = <<>>
    /\ Len(recommendations) = Len(candidates)

C6_ScoreIsRoundedWeightedMean ==
    \A ij \in ScoredPairs :
        LET m == scored_jobs[ij[1]][ij[2]]
            c == candidates[ij[1]]
            j == jobs[ij[2]]
            years == computed_years[ij[1]][ij[2]]
        IN  /\ m.job = j
            /\ RoundedTo4(m.score, WeightedMean(m.breakdown, weights))
            /\ m.breakdown.skills =
                   _skill_score(c.skills, j.required_skills, j.nice_to_have_skills)
            /\ m.breakdown.experience =
                   _experience_score(c.years_experience, j.minimum_years_experience,
                                     Some(years[1]), Some(years[2]))
            /\ m.breakdown.salary = _salary_score(c.desired_salary, j.salary_min, j.salary_max)
            /\ m.breakdown.location =
                   _location_score(c.preferred_locations, c.open_to_remote, j.location,
                                   j.remote_allowed)
            /\ m.breakdown.industry = _industry_score(c.industries, j.industries)

(* Weights that do not sum to 1, a weighted mean that is not a multiple of *)
(* 1/10000 and a sub-score that has more than 4 decimal places.            *)
C6_Witness ==
    /\ total_weight(weights) # One
    /\ \E ij \in ScoredPairs :
           LET m == scored_jobs[ij[1]][ij[2]]
           IN  /\ m.score # WeightedMean(m.breakdown, weights)
               /\ 10000 % m.breakdown.experience[2] # 0

(***************************************************************************)
(* C7: over the normalized sets C (candidate), R (required) and N          *)
(* (nice-to-have) the skill sub-score is 0 if C is empty and R is not;     *)
(* else, if R is empty, 1 if C is not empty and 1/2 if it is; else         *)
(* min(1, |C n R|/|R| + bonus) with bonus 0.3*|C n N|/|N| if N is not      *)
(* empty and 0 if it is.  A candidate covering a non-empty R scores 1.     *)
(***************************************************************************)
C7_SkillPolicy ==
    \A ij \in ScoredPairs :
        LET c == candidates[ij[1]]
            j == jobs[ij[2]]
            s == scored_jobs[ij[1]][ij[2]].breakdown.skills
            C == _normalized_set(c.skills)
            R == _normalized_set(j.required_skills)
            N == _normalized_set(j.nice_to_have_skills)
            bonus == IF N # {}
                     THEN Q(3 * Cardinality(C \cap N), 10 * Cardinality(N))
                     ELSE Zero
        IN  /\ (C = {} /\ R # {}) => s = Zero
            /\ (R = {} /\ C # {}) => s = One
            /\ (R = {} /\ C = {}) => s = Q(1, 2)
            /\ (C # {} /\ R # {}) =>
                   s = min(One, QAdd(Q(Cardinality(C \cap R), Cardinality(R)), bonus))
            /\ (R # {} /\ R \subseteq C) => s = One

(* Part of the required skills and part of the nice-to-have skills held:   *)
(* base and bonus add up to a score strictly between the base and 1.       *)
C7_Witness ==
    \E ij \in ScoredPairs :
        LET c == candidates[ij[1]]
            j == jobs[ij[2]]
            s == scored_jobs[ij[1]][ij[2]].breakdown.skills
            C == _normalized_set(c.skills)
            R == _normalized_set(j.required_skills)
            N == _normalized_set(j.nice_to_have_skills)
        IN  /\ C \cap R # {} /\ ~(R \subseteq C)
            /\ C \cap N # {}
            /\ QLt(Q(Cardinality(C \cap R), Cardinality(R)), s)
            /\ QLt(s, One)

(***************************************************************************)
(* C8 as stated: for a candidate with no role history the experience       *)
(* sub-score is the experience formula at blended years equal to           *)
(* years_experience.                                                       *)
(***************************************************************************)
C8_NoRolesUseRawYears ==
    \A ij \in ScoredPairs :
        LET c == candidates[ij[1]]
            j == jobs[ij[2]]
        IN  c.roles = <<>> =>
                scored_jobs[ij[1]][ij[2]].breakdown.experience =
                    ExperienceFormula(float(c.years_experience), j.minimum_years_experience)

(***************************************************************************)
(* C9: for a candidate with role history the experience sub-score is the   *)
(* experience formula at blended = 0.75*recent_relevant_years +            *)
(* 0.25*relevant_years: 1 if m <= 0; min(1, 0.7 + min((blended - m) /      *)
(* max(m, 1), 1)*0.3) if blended >= m; max(0, 0.7 - (m - blended)/(m + 1)) *)
(* if blended < m.                                                         *)
(***************************************************************************)
C9_BlendedExperience ==
    \A ij \in ScoredPairs :
        LET c == candidates[ij[1]]
            j == jobs[ij[2]]
            years == computed_years[ij[1]][ij[2]]
        IN  c.roles # <<>> =>
                scored_jobs[ij[1]][ij[2]].breakdown.experience =
                    ExperienceFormula(Blend(years), j.minimum_years_experience)

(* Role history whose recent years differ from its total, blended to less  *)
(* than the minimum and scored strictly between 0 and 0.7.                 *)
C9_Witness ==
    \E ij \in ScoredPairs :
        LET c == candidates[ij[1]]
            j == jobs[ij[2]]
            e == scored_jobs[ij[1]][ij[2]].breakdown.experience
            years == computed_years[ij[1]][ij[2]]
        IN  /\ c.roles # <<>>
            /\ years[1] # years[2]
            /\ QLt(Zero, years[2])
            /\ QLt(Blend(years), float(j.minimum_years_experience))
            /\ QLt(Zero, e) /\ QLt(e, Q(7, 10))

(***************************************************************************)
(* C10: for a minimum m >= 1 and the blended years the engine computes,    *)
(* blended >= m gives an experience sub-score of at least 0.7, blended >=  *)
(* 2*m gives exactly 1, and blended < m gives a sub-score strictly below   *)
(* 0.7 and not below 0.                                                    *)
(***************************************************************************)
C10_ExperienceThresholds ==
    \A ij \in ScoredPairs :
        LET c == candidates[ij[1]]
            j == jobs[ij[2]]
            e == scored_jobs[ij[1]][ij[2]].breakdown.experience
            m == j.minimum_years_experience
            blended == Blend(computed_years[ij[1]][ij[2]])
        IN  m >= 1 =>
                /\ QLe(float(m), blended) => QLe(Q(7, 10), e)
                /\ QLe(float(2 * m), blended) => e = One
                /\ QLt(blended, float(m)) => (QLt(e, Q(7, 10)) /\ QLe(Zero, e))

(* Blended years of exactly twice a minimum of at least 2: the surplus     *)
(* ratio is 1 and the sub-score reaches 1.                                 *)
C10_Witness ==
    \E ij \in ScoredPairs :
        LET c == candidates[ij[1]]
            j == jobs[ij[2]]
            m == j.minimum_years_experience
            blended == Blend(computed_years[ij[1]][ij[2]])
        IN  /\ m >= 2
            /\ blended = float(2 * m)
            /\ scored_jobs[ij[1]][ij[2]].breakdown.experience = One

(***************************************************************************)
(* C11: the salary sub-score is 1 when the candidate states no desired     *)
(* salary or the job states neither bound; otherwise it is                 *)
(* max(0, 1 - p_over - p_under), p_over = min(1, (desired - salary_max) /  *)
(* max(salary_max, 1)) if salary_max is stated and desired > salary_max,   *)
(* p_under = min(0.4, (salary_min - desired)/max(salary_min, 1)*0.4) if    *)
(* salary_min is stated and desired < salary_min, each 0 otherwise.  A     *)
(* desired salary inside the stated bounds scores 1 and one below the      *)
(* floor scores at least 0.6.                                              *)
(***************************************************************************)
C11_SalaryPolicy ==
    \A ij \in ScoredPairs :
        LET c == candidates[ij[1]]
            j == jobs[ij[2]]
            s == scored_jobs[ij[1]][ij[2]].breakdown.salary
            d == c.desired_salary
            lo == j.salary_min
            hi == j.salary_max
            p_over == IF hi # None /\ d[1] > hi[1]
                      THEN min(One, Q(d[1] - hi[1], imax(hi[1], 1)))
                      ELSE Zero
            p_under == IF lo # None /\ d[1] < lo[1]
                       THEN min(Q(4, 10), QMul(Q(lo[1] - d[1], imax(lo[1], 1)), Q(4, 10)))
                       ELSE Zero
        IN  /\ (d = None \/ (lo = None /\ hi = None)) => s = One
            /\ (d # None /\ (lo # None \/ hi # None)) =>
                   s = max(Zero, QSub(One, QAdd(p_over, p_under)))
            /\ (d # None /\ (lo = None \/ lo[1] <= d[1]) /\ (hi = None \/ d[1] <= hi[1]))
                   => s = One
            /\ (d # None /\ lo # None /\ d[1] < lo[1]) => QLe(Q(6, 10), s)

(* A desired salary below the floor, scored strictly between 0.6 and 1.    *)
C11_Witness ==
    \E ij \in ScoredPairs :
        LET c == candidates[ij[1]]
            j == jobs[ij[2]]
            s == scored_jobs[ij[1]][ij[2]].breakdown.salary
        IN  /\ c.desired_salary # None /\ j.salary_min # None
            /\ 0 < c.desired_salary[1] /\ c.desired_salary[1] < j.salary_min[1]
            /\ QLt(Q(6, 10), s) /\ QLt(s, One)

(***************************************************************************)
(* C12: the location sub-score is given by the first rule that applies:    *)
(* job remote and candidate open to remote, 1; the job's trimmed,          *)
(* lowercased location among the candidate's normalized preferred          *)
(* locations, 1; no preferred location, 0.8 if the job states a location   *)
(* and 1 if not; otherwise 0.2 if the job states a location and 0.4 if     *)
(* not.  A location that is absent or blank is not stated.                 *)
(***************************************************************************)
C12_LocationPolicy ==
    \A ij \in ScoredPairs :
        LET c == candidates[ij[1]]
            j == jobs[ij[2]]
            s == scored_jobs[ij[1]][ij[2]].breakdown.location
            P == _normalized_set(c.preferred_locations)
            loc == IF j.location = None THEN <<>> ELSE lower(strip(j.location[1]))
            remote == j.remote_allowed /\ c.open_to_remote
            met == loc # <<>> /\ loc \in P
        IN  /\ remote => s = One
            /\ (~remote /\ met) => s = One
            /\ (~remote /\ ~met /\ P = {}) => s = (IF loc # <<>> THEN Q(8, 10) ELSE One)
            /\ (~remote /\ ~met /\ P # {}) => s = (IF loc # <<>> THEN Q(2, 10) ELSE Q(4, 10))

(* No remote work, and a location written with padding and capitals that   *)
(* equals a preferred location once trimmed and lowercased.                *)
C12_Witness ==
    \E ij \in ScoredPairs :
        LET c == candidates[ij[1]]
            j == jobs[ij[2]]
        IN  /\ ~(j.remote_allowed /\ c.open_to_remote)
            /\ j.location = Some(BerlinPadded)
            /\ berlin \in _normalized_set(c.preferred_locations)
            /\ scored_jobs[ij[1]][ij[2]].breakdown.location = One

(***************************************************************************)
(* C13: over the normalized industry sets C of the candidate and J of the  *)
(* job the industry sub-score is 0.5 if both are empty, 0.6 if only C is   *)
(* empty, 0.7 if only J is empty and |C n J| / |J| otherwise.              *)
(***************************************************************************)
C13_IndustryPolicy ==
    \A ij \in ScoredPairs :
        LET s == scored_jobs[ij[1]][ij[2]].breakdown.industry
            C == _normalized_set(candidates[ij[1]].industries)
            J == _normalized_set(jobs[ij[2]].industries)
        IN  /\ (C = {} /\ J = {}) => s = Q(1, 2)
            /\ (C = {} /\ J # {}) => s = Q(6, 10)
            /\ (C # {} /\ J = {}) => s = Q(7, 10)
            /\ (C # {} /\ J # {}) => s = Q(Cardinality(C \cap J), Cardinality(J))

(* A candidate with an industry the job does not have and a job fully      *)
(* covered: the score is 1 although the two sets differ.                   *)
C13_Witness ==
    \E ij \in ScoredPairs :
        LET C == _normalized_set(candidates[ij[1]].industries)
            J == _normalized_set(jobs[ij[2]].industries)
        IN  /\ J # {} /\ J \subseteq C /\ C # J
            /\ scored_jobs[ij[1]][ij[2]].breakdown.industry = One

(***************************************************************************)
(* C14: for fixed required and nice-to-have skills, a candidate whose      *)
(* normalized skill set contains that of another scores at least as high   *)
(* on skills: every skill list that extends the scored candidate's skills  *)
(* scores at least the sub-score obtained, and every list the candidate's  *)
(* skills extend scores at most that, an empty skill set and a job that    *)
(* requires nothing included.                                              *)
(***************************************************************************)
C14_SkillMonotone ==
    \A ij \in ScoredPairs :
        LET j == jobs[ij[2]]
            s == scored_jobs[ij[1]][ij[2]].breakdown.skills
            A == _normalized_set(candidates[ij[1]].skills)
        IN  \A other \in CandidateSkillLists :
                LET B == _normalized_set(other)
                    t == _skill_score(other, j.required_skills, j.nice_to_have_skills)
                IN  /\ A \subseteq B => QLe(s, t)
                    /\ B \subseteq A => QLe(t, s)

(* A candidate without skills scored 0.5 against a job that requires       *)
(* nothing, and a candidate with a skill scored strictly higher.           *)
C14_Witness ==
    \E ij \in ScoredPairs :
        LET j == jobs[ij[2]]
        IN  /\ _normalized_set(candidates[ij[1]].skills) = {}
            /\ _normalized_set(j.required_skills) = {}
            /\ scored_jobs[ij[1]][ij[2]].breakdown.skills = Q(1, 2)
            /\ \E other \in CandidateSkillLists :
                   _skill_score(other, j.required_skills, j.nice_to_have_skills) = One

C16_RecentWithinRelevant ==
    \A ij \in ScoredPairs :
        LET years == computed_years[ij[1]][ij[2]]
        IN  QLe(Zero, years[2]) /\ QLe(years[2], years[1])

(***************************************************************************)
(* C17: the score and breakdown of a pair do not depend on the candidate's *)
(* relevant_years, recent_relevant_years and seniority fields: a candidate *)
(* that carries any of them gets, against every job, the match of the      *)
(* candidate that differs only by not carrying them.                       *)
(***************************************************************************)
C17_PrecomputedIgnored ==
    \A ij \in ScoredPairs :
        LET c == candidates[ij[1]]
            plain == [c EXCEPT !.relevant_years = None, !.recent_relevant_years = None,
                               !.seniority = None]
        IN  c # plain =>
                scored_jobs[ij[1]][ij[2]] =
                    _score_candidate_for_job(weights, plain, jobs[ij[2]], called_at[1]).match

(* A candidate with roles whose record carries years different from the    *)
(* years the engine computed for the job.                                  *)
C17_Witness ==
    \E ij \in ScoredPairs :
        LET c == candidates[ij[1]]
        IN  /\ c.roles # <<>>
            /\ c.relevant_years # None /\ c.recent_relevant_years # None
            /\ c.seniority # None
            /\ computed_years[ij[1]][ij[2]] # <<c.relevant_years[1], c.recent_relevant_years[1]>>
            /\ jobs[ij[2]].minimum_years_experience > 0

(***************************************************************************)
(* C18: while a pair of valid records is scored under valid weights no     *)
(* division divides by zero: every divisor reached in the skill,           *)
(* experience, role relevance, salary and industry computations and in the *)
(* weighted total is strictly positive.                                    *)
(***************************************************************************)
C18_DivisorsPositive ==
    \A ij \in ScoredPairs :
        \A d \in Divisors(weights, candidates[ij[1]], jobs[ij[2]], computed_years[ij[1]][ij[2]]) :
            QLt(Zero, d)

(* A salary ceiling of 0 exceeded by the desired salary, under weights     *)
(* some of which are 0: the divisor is max(0, 1).                          *)
C18_Witness ==
    /\ weights.salary = Zero
    /\ \E ij \in ScoredPairs :
           LET c == candidates[ij[1]]
               j == jobs[ij[2]]
           IN  /\ j.salary_max = Some(0)
               /\ c.desired_salary # None /\ c.desired_salary[1] > 0
               /\ One \in Divisors(weights, c, j, computed_years[ij[1]][ij[2]])
               /\ scored_jobs[ij[1]][ij[2]].breakdown.salary = Zero

(***************************************************************************)
(* C19 as stated: under the default weights, a candidate who is not open   *)
(* to remote and whose non-empty preferred locations do not contain the    *)
(* job's location, against a job that states no location, has a location  *)
(* sub-score below 0.5 and a score below 0.8.                              *)
(***************************************************************************)
C19_RemoteMismatch ==
    \A ij \in ScoredPairs :
        LET c == candidates[ij[1]]
            j == jobs[ij[2]]
            m == scored_jobs[ij[1]][ij[2]]
        IN  (/\ weights = DefaultWeights
             /\ ~c.open_to_remote
             /\ _normalized_set(c.preferred_locations) # {}
             /\ j.location = None)
            => /\ QLt(m.breakdown.location, Q(1, 2))
               /\ QLt(m.score, Q(8, 10))

(* The score of a scored pair had the engine been built with the weights w. *)
ScoreUnder(w, ij) ==
    _score_candidate_for_job(w, candidates[ij[1]], jobs[ij[2]], called_at[1]).match.score

(* The candidate of a scored pair asks for more than the job's salary_max. *)
AsksAboveMax(ij) ==
    LET d  == candidates[ij[1]].desired_salary
        hi == jobs[ij[2]].salary_max
    IN  d # None /\ hi # None /\ d[1] > hi[1]

(***************************************************************************)
(* C20 as stated: every pair whose desired salary exceeds the job's        *)
(* salary_max scores strictly lower under the salary-focused weights than  *)
(* under the default weights.                                              *)
(***************************************************************************)
C20_SalaryFocusAlwaysLower ==
    \A ij \in ScoredPairs :
        (weights = DefaultWeights /\ AsksAboveMax(ij))
            => QLt(ScoreUnder(SalaryFocusWeights, ij), scored_jobs[ij[1]][ij[2]].score)

(* What the default weights give above the salary-focused weights before   *)
(* rounding: 0.15 skills + 0.10 experience - 0.25 salary (location and     *)
(* industry weigh the same in both).                                       *)
DefaultOverFocus(b) ==
    QSub(QAdd(QMul(Q(15, 100), b.skills), QMul(Q(10, 100), b.experience)),
         QMul(Q(25, 100), b.salary))

(***************************************************************************)
(* C20 amended: for a pair whose desired salary exceeds the job's          *)
(* salary_max, the salary-focused score is strictly lower than the default *)
(* score when 0.15 skills + 0.10 experience exceeds 0.25 salary by at      *)
(* least 0.0001, and is not lower when it does not exceed it; the pair of  *)
(* the test scores 0.925 by default and 0.8975 salary-focused.             *)
(***************************************************************************)
C20_SalaryFocusLowerWhenSalaryLags ==
    \A ij \in ScoredPairs :
        (weights = DefaultWeights /\ AsksAboveMax(ij))
            => LET m     == scored_jobs[ij[1]][ij[2]]
                   gap   == DefaultOverFocus(m.breakdown)
                   focus == ScoreUnder(SalaryFocusWeights, ij)
               IN  /\ QLe(Q(1, 10000), gap) => QLt(focus, m.score)
                   /\ QLe(gap, Zero) => QLe(m.score, focus)
                   /\ <<candidates[ij[1]], jobs[ij[2]]>> \in CustomWeightsPairs
                          => m.score = Q(925, 1000) /\ focus = Q(8975, 10000)

C20_Witness ==
    \E ij \in ScoredPairs :
        /\ weights = DefaultWeights
        /\ AsksAboveMax(ij)
        /\ <<candidates[ij[1]], jobs[ij[2]]>> \in CustomWeightsPairs
        /\ QLt(ScoreUnder(SalaryFocusWeights, ij), scored_jobs[ij[1]][ij[2]].score)

(* The title of the role and the title of the job have a token in common.  *)
SharesTitleToken(role, job) ==
    _normalized_set(split(role.title)) \cap _normalized_set(split(job.title)) # {}

(* The role has a start_year and no end_year.                              *)
Ongoing(role) == role.start_year # None /\ role.end_year = None

(* The lowercased title and description of a role.                         *)
RoleText(role) ==
    IF role.description # None /\ role.description[1] # <<>>
    THEN lower(role.title) \o <<" ">> \o lower(role.description[1])
    ELSE lower(role.title)

(* The job shares no title token, no required skill and no domain with any *)
(* role or skill of the candidate.                                         *)
UnrelatedTo(c, job) ==
    /\ _normalized_set(c.skills) \cap _normalized_set(job.required_skills) = {}
    /\ \A k \in 1..Len(c.roles) :
           /\ ~SharesTitleToken(c.roles[k], job)
           /\ ~_roles_in_similar_domain(c.roles[k], job)
           /\ \A skill \in _normalized_set(job.required_skills) :
                  ~contains(skill, RoleText(c.roles[k]))

(* Candidate i, job jp and job ju of a call are as in Scenario E.          *)
ScenarioE(i, jp, ju) ==
    LET c == candidates[i]
        P == jobs[jp]
        U == jobs[ju]
    IN  /\ \E k \in 1..Len(c.roles) :
               /\ Ongoing(c.roles[k])
               /\ c.roles[k].start_year[1] <= called_at[1]
               /\ SharesTitleToken(c.roles[k], P)
        /\ \E k \in 1..Len(c.roles) :
               /\ c.roles[k].end_year # None
               /\ c.roles[k].end_year[1] < called_at[1]
               /\ ~SharesTitleToken(c.roles[k], P)
        /\ UnrelatedTo(c, U)
        /\ P.minimum_years_experience = U.minimum_years_experience
        /\ P.minimum_years_experience >= 1

(***************************************************************************)
(* C21 as stated: in Scenario E the experience sub-score against P is      *)
(* never lower than against U, and strictly higher when both ask for 3     *)
(* years.                                                                  *)
(***************************************************************************)
C21_RoleRelevance ==
    \A i \in 1..Len(candidates) : \A jp, ju \in 1..Len(jobs) :
        (Called /\ ScenarioE(i, jp, ju))
            => LET eP == scored_jobs[i][jp].breakdown.experience
                   eU == scored_jobs[i][ju].breakdown.experience
               IN  /\ QLe(eU, eP)
                   /\ jobs[jp].minimum_years_experience = 3 => QLt(eU, eP)

(***************************************************************************)
(* C21 amended: in Scenario E the experience sub-score against P is never  *)
(* lower than against U; when both ask for 3 years it is strictly higher   *)
(* if the ongoing role that shares a title token with P has                *)
(* 0.25 duration_years + 0.75 recent years above 0.2.                      *)
(***************************************************************************)
C21_RoleRelevanceAboveFloor ==
    \A i \in 1..Len(candidates) : \A jp, ju \in 1..Len(jobs) :
        (Called /\ ScenarioE(i, jp, ju))
            => LET c  == candidates[i]
                   eP == scored_jobs[i][jp].breakdown.experience
                   eU == scored_jobs[i][ju].breakdown.experience
               IN  /\ QLe(eU, eP)
                   /\ (/\ jobs[jp].minimum_years_experience = 3
                       /\ \E k \in 1..Len(c.roles) :
                              /\ Ongoing(c.roles[k])
                              /\ SharesTitleToken(c.roles[k], jobs[jp])
                              /\ QLt(Q(1, 5),
                                     QAdd(QMul(Q(1, 4), c.roles[k].duration_years),
                                          QMul(Q(3, 4),
                                               RecentDuration(c.roles[k], called_at[1])))))
                      => QLt(eU, eP)

C21_Witness ==
    \E i \in 1..Len(candidates) : \E jp, ju \in 1..Len(jobs) :
        /\ Called
        /\ ScenarioE(i, jp, ju)
        /\ candidates[i] = MixedCandidate
        /\ jobs[jp] = PythonJob
        /\ QLt(scored_jobs[i][ju].breakdown.experience,
               scored_jobs[i][jp].breakdown.experience)

(* The position of job index j of candidate i in the matches returned, 0   *)
(* when the job is not returned.                                           *)
PositionOf(i, j) ==
    LET ms == recommendations[i].matches
        at == {a \in 1..Len(ms) : ms[a].job = jobs[j]}
    IN  IF at = {} THEN 0 ELSE CHOOSE a \in at : TRUE

(* Jobs a and b give candidate i the same experience, salary, location and *)
(* industry sub-scores, and a the strictly higher skill sub-score.         *)
BetterSkillsOnly(i, a, b) ==
    LET x == scored_jobs[i][a].breakdown
        y == scored_jobs[i][b].breakdown
    IN  /\ jobs[a] # jobs[b]
        /\ x.experience = y.experience
        /\ x.salary = y.salary
        /\ x.location = y.location
        /\ x.industry = y.industry
        /\ QLt(y.skills, x.skills)

(***************************************************************************)
(* C22 as stated: with a positive skills weight, a job that differs from   *)
(* another only by a strictly higher skill sub-score has the strictly      *)
(* higher score and is returned before it, whatever their input order.     *)
(***************************************************************************)
C22_BetterSkillsRankFirst ==
    \A i \in 1..Len(candidates) : \A a, b \in 1..Len(jobs) :
        (Called /\ QLt(Zero, weights.skills) /\ BetterSkillsOnly(i, a, b))
            => /\ QLt(scored_jobs[i][b].score, scored_jobs[i][a].score)
               /\ PositionOf(i, b) # 0
                      => PositionOf(i, a) # 0 /\ PositionOf(i, a) < PositionOf(i, b)

(***************************************************************************)
(* C22 amended: with a positive skills weight, a job that differs from     *)
(* another only by a strictly higher skill sub-score never has the lower   *)
(* score; when the skills weight times the difference of the skill         *)
(* sub-scores, divided by the total weight, is at least 0.0001, it has the *)
(* strictly higher score and is returned before the other, whatever their  *)
(* input order.                                                            *)
(***************************************************************************)
C22_BetterSkillsRankFirstAboveRounding ==
    \A i \in 1..Len(candidates) : \A a, b \in 1..Len(jobs) :
        (Called /\ QLt(Zero, weights.skills) /\ BetterSkillsOnly(i, a, b))
            => LET x == scored_jobs[i][a]
                   y == scored_jobs[i][b]
                   gain == QDiv(QMul(weights.skills,
                                     QSub(x.breakdown.skills, y.breakdown.skills)),
                                total_weight(weights))
               IN  /\ QLe(y.score, x.score)
                   /\ QLe(Q(1, 10000), gain)
                          => /\ QLt(y.score, x.score)
                             /\ PositionOf(i, b) # 0
                                    => /\ PositionOf(i, a) # 0
                                       /\ PositionOf(i, a) < PositionOf(i, b)

(* The two jobs of the test, the weaker first in the input, both returned  *)
(* with the closer one first.                                              *)
C22_Witness ==
    /\ Called
    /\ weights = DefaultWeights
    /\ candidates = <<AlignedCandidate>>
    /\ jobs = <<WeakMatch, CloseMatch>>
    /\ BetterSkillsOnly(1, 2, 1)
    /\ PositionOf(1, 2) = 1
    /\ PositionOf(1, 1) = 2

(***************************************************************************)
(* C23 as stated: every call the API layer makes to                        *)
(* match_candidates_to_jobs, from /match or from /analyze-jobs, passes a   *)
(* top_n between 1 and 20.                                                 *)
(***************************************************************************)
C23_ApiBoundsTopN == Called => (1 <= top_n /\ top_n <= 20)

(* The request being answered is a /match request that carries weights.    *)
MatchWithWeights ==
    /\ request # None
    /\ request[1].endpoint = "/match"
    /\ request[1].body.weights # None

(* Some weight given is negative, or the five weights sum to 0.            *)
BadWeights(kwargs) ==
    \/ \E f \in {"skills", "experience", "salary", "location", "industry"} :
           kwargs[f] # None /\ QLt(kwargs[f][1], Zero)
    \/ total_weight(WithDefaults(kwargs)) = Zero

(***************************************************************************)
(* C24: a /match request whose weights have a negative component or sum to *)
(* 0 is rejected without an engine call; the weights of every engine       *)
(* called are non-negative with a strictly positive total; the default     *)
(* weights are 0.45, 0.20, 0.15, 0.10 and 0.10.                            *)
(***************************************************************************)
C24_WeightsValidated ==
    /\ (MatchWithWeights /\ BadWeights(request[1].body.weights[1]))
           => response[1].status_code = 422 /\ ~Called
    /\ \A f \in {"skills", "experience", "salary", "location", "industry"} :
           QLe(Zero, weights[f])
    /\ QLt(Zero, total_weight(weights))
    /\ MatchingWeights(NoArguments) =
           [ok |-> TRUE,
            value |-> [skills |-> Q(45, 100), experience |-> Q(20, 100),
                       salary |-> Q(15, 100), location |-> Q(10, 100),
                       industry |-> Q(10, 100)]]

(* A request whose five weights are all 0 has been rejected.               *)
C24_Witness ==
    /\ MatchWithWeights
    /\ \A f \in {"skills", "experience", "salary", "location", "industry"} :
           request[1].body.weights[1][f] = Some(Zero)
    /\ response[1].status_code = 422

(***************************************************************************)
(* C28: after any sequence of requests the default engine still has the    *)
(* default weights; a /match request with weights is scored by an engine   *)
(* with exactly those weights and every other call is scored with the      *)
(* default weights.                                                        *)
(***************************************************************************)
C28_DefaultEngineUntouched ==
    /\ _default_engine.weights = MatchingWeights(NoArguments).value
    /\ Called =>
           /\ response[1].weights = weights
           /\ weights = (IF MatchWithWeights THEN WithDefaults(request[1].body.weights[1])
                         ELSE MatchingWeights(NoArguments).value)

(* A request with weights of its own has been scored with them.            *)
C28_Witness ==
    /\ Called
    /\ MatchWithWeights
    /\ weights # _default_engine.weights
    /\ weights.skills = Q(4, 10)
    /\ response[1].status_code = 200

(* The parts of the relevance of a role to a job: whether the titles share *)
(* a token, the share of the job's required skills among the candidate's   *)
(* skills, and the share of them occurring in the text of the role.        *)
TitleMatch(role, job) == IF SharesTitleToken(role, job) THEN One ELSE Zero

SkillOverlap(c, role, job) ==
    LET required == _normalized_set(job.required_skills)
        held     == _normalized_set(c.skills) \cap required
        named    == {s \in required : contains(s, RoleText(role))}
    IN  IF required = {} THEN Zero
        ELSE QAdd(QMul(Q(7, 10), Q(Cardinality(held), Cardinality(required))),
                  QMul(Q(3, 10), Q(Cardinality(named), Cardinality(required))))

DomainBoost(role, job) == IF _roles_in_similar_domain(role, job) THEN Q(2, 10) ELSE Zero

Relevance(c, role, job) ==
    min(One, QAdd(max(TitleMatch(role, job), SkillOverlap(c, role, job)),
                  DomainBoost(role, job)))

(* The sum over the roles k.. of duration_years times relevance.           *)
RECURSIVE RelevantFrom(_, _, _)
RelevantFrom(c, job, k) ==
    IF k > Len(c.roles) THEN Zero
    ELSE QAdd(QMul(c.roles[k].duration_years, Relevance(c, c.roles[k], job)),
              RelevantFrom(c, job, k + 1))

(***************************************************************************)
(* C25: the relevance of every role to the job is                          *)
(* min(1.0, max(title_match, skill_overlap) + domain_boost), lies in       *)
(* [0, 1], and relevant_years is the sum over the roles of duration_years  *)
(* times that relevance.                                                   *)
(***************************************************************************)
C25_RoleRelevanceFormula ==
    \A ij \in ScoredPairs :
        LET c == candidates[ij[1]]
            j == jobs[ij[2]]
        IN  c.roles # <<>>
            => /\ \A k \in 1..Len(c.roles) :
                      /\ RoleRelevance(c, j, c.roles[k]) = Relevance(c, c.roles[k], j)
                      /\ InUnit(RoleRelevance(c, j, c.roles[k]))
               /\ computed_years[ij[1]][ij[2]][1] = RelevantFrom(c, j, 1)

(* A role without a title match whose skill overlap of 0.35 is raised by   *)
(* the domain boost to 0.55, beside a role whose title matches.            *)
C25_Witness ==
    \E ij \in ScoredPairs :
        LET c == candidates[ij[1]]
            j == jobs[ij[2]]
        IN  /\ Len(c.roles) = 2
            /\ \E k \in 1..Len(c.roles) :
                   /\ TitleMatch(c.roles[k], j) = Zero
                   /\ DomainBoost(c.roles[k], j) = Q(2, 10)
                   /\ SkillOverlap(c, c.roles[k], j) = Q(35, 100)
                   /\ RoleRelevance(c, j, c.roles[k]) = Q(55, 100)
            /\ \E k \in 1..Len(c.roles) :
                   /\ TitleMatch(c.roles[k], j) = One
                   /\ RoleRelevance(c, j, c.roles[k]) = One
            /\ computed_years[ij[1]][ij[2]][1] = RelevantFrom(c, j, 1)

(* The years of a dated role inside [now - 5, now], as the claim words     *)
(* them: e is the end year, the current year when absent.                  *)
RecentOverlap(role, current) ==
    LET s == role.start_year[1]
        e == IF role.end_year = None THEN current ELSE role.end_year[1]
    IN  imax(0, imin(e, current) - imax(s, current - 5))

(* The sum over the roles k.. of the recent years of a role times its      *)
(* relevance: the overlap of a dated role, and the whole duration of an    *)
(* undated role of at most 5 years.                                        *)
RECURSIVE RecentFrom(_, _, _, _)
RecentFrom(c, job, current, k) ==
    IF k > Len(c.roles) THEN Zero
    ELSE LET role == c.roles[k]
             years == IF role.start_year # None THEN float(RecentOverlap(role, current))
                      ELSE IF QLe(role.duration_years, float(5)) THEN role.duration_years
                      ELSE Zero
         IN  QAdd(QMul(years, Relevance(c, role, job)), RecentFrom(c, job, current, k + 1))

(***************************************************************************)
(* C26: a role with a start_year adds                                      *)
(* max(0, min(e, now) - max(s, now - 5)) * relevance to                    *)
(* recent_relevant_years, whatever its duration_years; a role that ended   *)
(* before now - 5 or begins after now adds 0.                              *)
(***************************************************************************)
C26_DatedRoleRecentYears ==
    \A ij \in ScoredPairs :
        LET c   == candidates[ij[1]]
            j   == jobs[ij[2]]
            at  == called_at[1]
        IN  (c.roles # <<>> /\ \A k \in 1..Len(c.roles) : c.roles[k].start_year # None)
            => /\ computed_years[ij[1]][ij[2]][2] = RecentFrom(c, j, at, 1)
               /\ \A k \in 1..Len(c.roles) :
                      LET role == c.roles[k]
                      IN  /\ RecentDuration(role, at) = float(RecentOverlap(role, at))
                          /\ (role.end_year # None /\ role.end_year[1] < at - 5)
                                 => RecentDuration(role, at) = Zero
                          /\ role.start_year[1] > at => RecentDuration(role, at) = Zero

(* An ongoing role whose years inside the window exceed its duration_years *)
(* beside a role that ended inside the window, both relevant.              *)
C26_Witness ==
    \E ij \in ScoredPairs :
        LET c == candidates[ij[1]]
            j == jobs[ij[2]]
        IN  /\ Len(c.roles) = 2
            /\ \A k \in 1..Len(c.roles) : c.roles[k].start_year # None
            /\ \E k \in 1..Len(c.roles) :
                   /\ c.roles[k].end_year = None
                   /\ QLt(c.roles[k].duration_years, RecentDuration(c.roles[k], called_at[1]))
            /\ \E k \in 1..Len(c.roles) :
                   /\ c.roles[k].end_year # None
                   /\ RecentDuration(c.roles[k], called_at[1]) = float(1)
            /\ computed_years[ij[1]][ij[2]][2] = RecentFrom(c, j, called_at[1], 1)
            /\ QLt(float(3), computed_years[ij[1]][ij[2]][2])

Unrounded(i, j) == total(scored_jobs[i][j].breakdown, weights)

(***************************************************************************)
(* C29: two jobs of a candidate whose totals round to the same 4-decimal   *)
(* value are ranked as a tie, in input order, also when the later one has  *)
(* the strictly larger unrounded total: it is returned after the earlier   *)
(* one, or cut off while the earlier one is returned.                      *)
(***************************************************************************)
C29_RoundedScoresRank ==
    \A i \in 1..Len(candidates) : \A a, b \in 1..Len(jobs) :
        (/\ Called
         /\ a < b
         /\ jobs[a] # jobs[b]
         /\ round(Unrounded(i, a), 4) = round(Unrounded(i, b), 4))
            => /\ scored_jobs[i][a].score = scored_jobs[i][b].score
               /\ PositionOf(i, b) # 0
                      => PositionOf(i, a) # 0 /\ PositionOf(i, a) < PositionOf(i, b)

(* The later job has the larger total, rounds to the same score and is cut *)
(* off by top_n = 1 in favour of the earlier one.                          *)
C29_Witness ==
    \E i \in 1..Len(candidates) : \E a, b \in 1..Len(jobs) :
        /\ Called
        /\ a < b
        /\ QLt(Unrounded(i, a), Unrounded(i, b))
        /\ scored_jobs[i][a].score = scored_jobs[i][b].score
        /\ top_n = 1
        /\ PositionOf(i, a) = 1
        /\ PositionOf(i, b) = 0

(***************************************************************************)
(* C30 as stated: _compute_recent_years returns a value between 0 and      *)
(* window_years, and roles that ended before the window add nothing.       *)
(***************************************************************************)
C30_RecentYearsWithinWindow ==
    recent_years # None
        => /\ QLe(Zero, recent_years[1])
           /\ QLe(recent_years[1], float(window_years))
           /\ (\A k \in 1..Len(roles) :
                   /\ roles[k].start_year # None
                   /\ roles[k].end_year # None
                   /\ roles[k].end_year[1] < called_at[1] - window_years)
                  => recent_years[1] = Zero
====
